---- MODULE Spec2Model ----
(***************************************************************************)
(* State-machine model of the MTG Commander analyzer: the role classifier  *)
(* (roles.ts), the deck analyzer (analyzer.ts), the category-deficit       *)
(* calculator (categoryUtils.ts), the template / bracket / card loaders    *)
(* and the deck builder (deckBuilder.ts).                                  *)
(*                                                                         *)
(* Text is modelled as a set of sentences (oracle text) or words (type     *)
(* line).  The patterns the classifier searches for never span two         *)
(* sentences, so `text.includes(p)` holds exactly when p is a substring of *)
(* one sentence of the text; PatternsIn tabulates, for every string of the *)
(* vocabulary, which patterns are (case-sensitive) substrings of it, and   *)
(* LowerCaseOf tabulates String.prototype.toLowerCase.                     *)
(***************************************************************************)
EXTENDS Integers, Sequences, FiniteSets, TLC

(* ----------------------------- bounds --------------------------------- *)
\* largest number of sentences in the oracle text of a classified card
MaxSentences == 2
\* largest number of words in the type line of a classified card
MaxTypeWords == 2
\* largest number of lines of an analysed deck text
MaxDeckLines == 2

(* ------------------------- generic helpers ---------------------------- *)
\* the subsets of S with at most k elements
RECURSIVE SubsetsUpTo(_, _)
SubsetsUpTo(S, k) ==
  IF k = 0 THEN {{}}
  ELSE LET smaller == SubsetsUpTo(S, k - 1)
       IN  smaller \cup {T \cup {x} : T \in smaller, x \in S}

Range(q) == {q[i] : i \in 1..Len(q)}

\* F applied to the value of x, x being evaluated once
Bind(x, F(_)) == CHOOSE y \in {F(v) : v \in {x}} : TRUE

\* an optional value (TypeScript `T | undefined`): <<>> is undefined
None == <<>>
Some(x) == <<x>>
IsSome(o) == o # <<>>
ValueOf(o) == o[1]

(* --------------------------- text vocabulary -------------------------- *)
\* ---- vocabulary tables ----
\* the sentences oracle texts are made of
OracleSentences ==
  {"{T}: Add {C}{C}.",
   "Search your library for a land card, put it onto the battlefield.",
   "Search your library for a basic land card, reveal it, put it into your hand.",
   "Search your library for up to two basic land cards.",
   "You may put a land card from your hand onto the battlefield.",
   "Destroy target creature.",
   "Exile target creature.",
   "Destroy all creatures.",
   "Exile all creatures.",
   "Destroy all nonland permanents.",
   "Destroy all permanents.",
   "Destroy all lands.",
   "Lightning Bolt deals 3 damage to any target.",
   "Shock deals 2 damage to target creature.",
   "Return target creature to its owner's hand.",
   "Target creature gets -3/-3 until end of turn.",
   "Each creature gets -2/-2 until end of turn.",
   "Destroy each creature with power 4 or greater.",
   "All creatures get -2/-2 until end of turn.",
   "Draw a card.",
   "Draw three cards.",
   "Whenever an opponent draws a card, you gain 1 life.",
   "Hexproof",
   "Indestructible",
   "Ward {2}",
   "Create a Reward token.",
   "Counter target spell.",
   "Search your library for a card, put that card into your hand.",
   "Search your library for an Aura card, reveal it.",
   "Search your library for an instant card, reveal it.",
   "You win the game.",
   "This deals damage to any target equal to 50.",
   "Take an extra turn after this one.",
   "Flying"}

\* the words type lines of classified cards are made of
TypeWords ==
  {"Land", "Island", "Artifact", "Creature", "Planeswalker"}

\* String.prototype.toLowerCase, tabulated over the strings of the model
LowerCaseOf ==
     "{T}: Add {C}{C}." :> "{t}: add {c}{c}."
  @@ "{t}: add {c}{c}." :> "{t}: add {c}{c}."
  @@ "Search your library for a land card, put it onto the battlefield." :> "search your library for a land card, put it onto the battlefield."
  @@ "search your library for a land card, put it onto the battlefield." :> "search your library for a land card, put it onto the battlefield."
  @@ "Search your library for a basic land card, reveal it, put it into your hand." :> "search your library for a basic land card, reveal it, put it into your hand."
  @@ "search your library for a basic land card, reveal it, put it into your hand." :> "search your library for a basic land card, reveal it, put it into your hand."
  @@ "Search your library for up to two basic land cards." :> "search your library for up to two basic land cards."
  @@ "search your library for up to two basic land cards." :> "search your library for up to two basic land cards."
  @@ "You may put a land card from your hand onto the battlefield." :> "you may put a land card from your hand onto the battlefield."
  @@ "you may put a land card from your hand onto the battlefield." :> "you may put a land card from your hand onto the battlefield."
  @@ "Destroy target creature." :> "destroy target creature."
  @@ "destroy target creature." :> "destroy target creature."
  @@ "Exile target creature." :> "exile target creature."
  @@ "exile target creature." :> "exile target creature."
  @@ "Destroy all creatures." :> "destroy all creatures."
  @@ "destroy all creatures." :> "destroy all creatures."
  @@ "Exile all creatures." :> "exile all creatures."
  @@ "exile all creatures." :> "exile all creatures."
  @@ "Destroy all nonland permanents." :> "destroy all nonland permanents."
  @@ "destroy all nonland permanents." :> "destroy all nonland permanents."
  @@ "Destroy all permanents." :> "destroy all permanents."
  @@ "destroy all permanents." :> "destroy all permanents."
  @@ "Destroy all lands." :> "destroy all lands."
  @@ "destroy all lands." :> "destroy all lands."
  @@ "Lightning Bolt deals 3 damage to any target." :> "lightning bolt deals 3 damage to any target."
  @@ "lightning bolt deals 3 damage to any target." :> "lightning bolt deals 3 damage to any target."
  @@ "Shock deals 2 damage to target creature." :> "shock deals 2 damage to target creature."
  @@ "shock deals 2 damage to target creature." :> "shock deals 2 damage to target creature."
  @@ "Return target creature to its owner's hand." :> "return target creature to its owner's hand."
  @@ "return target creature to its owner's hand." :> "return target creature to its owner's hand."
  @@ "Target creature gets -3/-3 until end of turn." :> "target creature gets -3/-3 until end of turn."
  @@ "target creature gets -3/-3 until end of turn." :> "target creature gets -3/-3 until end of turn."
  @@ "Each creature gets -2/-2 until end of turn." :> "each creature gets -2/-2 until end of turn."
  @@ "each creature gets -2/-2 until end of turn." :> "each creature gets -2/-2 until end of turn."
  @@ "Destroy each creature with power 4 or greater." :> "destroy each creature with power 4 or greater."
  @@ "destroy each creature with power 4 or greater." :> "destroy each creature with power 4 or greater."
  @@ "All creatures get -2/-2 until end of turn." :> "all creatures get -2/-2 until end of turn."
  @@ "all creatures get -2/-2 until end of turn." :> "all creatures get -2/-2 until end of turn."
  @@ "Draw a card." :> "draw a card."
  @@ "draw a card." :> "draw a card."
  @@ "Draw three cards." :> "draw three cards."
  @@ "draw three cards." :> "draw three cards."
  @@ "Whenever an opponent draws a card, you gain 1 life." :> "whenever an opponent draws a card, you gain 1 life."
  @@ "whenever an opponent draws a card, you gain 1 life." :> "whenever an opponent draws a card, you gain 1 life."
  @@ "Hexproof" :> "hexproof"
  @@ "hexproof" :> "hexproof"
  @@ "Indestructible" :> "indestructible"
  @@ "indestructible" :> "indestructible"
  @@ "Ward {2}" :> "ward {2}"
  @@ "ward {2}" :> "ward {2}"
  @@ "Create a Reward token." :> "create a reward token."
  @@ "create a reward token." :> "create a reward token."
  @@ "Counter target spell." :> "counter target spell."
  @@ "counter target spell." :> "counter target spell."
  @@ "Search your library for a card, put that card into your hand." :> "search your library for a card, put that card into your hand."
  @@ "search your library for a card, put that card into your hand." :> "search your library for a card, put that card into your hand."
  @@ "Search your library for an Aura card, reveal it." :> "search your library for an aura card, reveal it."
  @@ "search your library for an aura card, reveal it." :> "search your library for an aura card, reveal it."
  @@ "Search your library for an instant card, reveal it." :> "search your library for an instant card, reveal it."
  @@ "search your library for an instant card, reveal it." :> "search your library for an instant card, reveal it."
  @@ "You win the game." :> "you win the game."
  @@ "you win the game." :> "you win the game."
  @@ "This deals damage to any target equal to 50." :> "this deals damage to any target equal to 50."
  @@ "this deals damage to any target equal to 50." :> "this deals damage to any target equal to 50."
  @@ "Take an extra turn after this one." :> "take an extra turn after this one."
  @@ "take an extra turn after this one." :> "take an extra turn after this one."
  @@ "Flying" :> "flying"
  @@ "flying" :> "flying"
  @@ "Land" :> "land"
  @@ "land" :> "land"
  @@ "Island" :> "island"
  @@ "island" :> "island"
  @@ "Artifact" :> "artifact"
  @@ "artifact" :> "artifact"
  @@ "Creature" :> "creature"
  @@ "creature" :> "creature"
  @@ "Planeswalker" :> "planeswalker"
  @@ "planeswalker" :> "planeswalker"
  @@ "Instant" :> "instant"
  @@ "instant" :> "instant"
  @@ "Sorcery" :> "sorcery"
  @@ "sorcery" :> "sorcery"
  @@ "Enchantment" :> "enchantment"
  @@ "enchantment" :> "enchantment"
  @@ "Legendary" :> "legendary"
  @@ "legendary" :> "legendary"
  @@ "Sol Ring" :> "sol ring"
  @@ "sol ring" :> "sol ring"
  @@ "SOL RING" :> "sol ring"
  @@ "Swords to Plowshares" :> "swords to plowshares"
  @@ "swords to plowshares" :> "swords to plowshares"
  @@ "Repulse" :> "repulse"
  @@ "repulse" :> "repulse"
  @@ "Wrath of God" :> "wrath of god"
  @@ "wrath of god" :> "wrath of god"
  @@ "Rhystic Study" :> "rhystic study"
  @@ "rhystic study" :> "rhystic study"
  @@ "rhystic study " :> "rhystic study "
  @@ "Demonic Tutor" :> "demonic tutor"
  @@ "demonic tutor" :> "demonic tutor"
  @@ "Time Warp" :> "time warp"
  @@ "time warp" :> "time warp"
  @@ "Armageddon" :> "armageddon"
  @@ "armageddon" :> "armageddon"
  @@ "Counterspell" :> "counterspell"
  @@ "counterspell" :> "counterspell"
  @@ "Thassa's Oracle" :> "thassa's oracle"
  @@ "thassa's oracle" :> "thassa's oracle"
  @@ "Mystery Card" :> "mystery card"
  @@ "mystery card" :> "mystery card"
  @@ "Cyclonic Rift" :> "cyclonic rift"
  @@ "cyclonic rift" :> "cyclonic rift"
  @@ " Time Warp" :> " time warp"
  @@ " time warp" :> " time warp"
  @@ "Niv-Mizzet, Parun" :> "niv-mizzet, parun"
  @@ "niv-mizzet, parun" :> "niv-mizzet, parun"
  @@ "Wastes" :> "wastes"
  @@ "wastes" :> "wastes"
  @@ "Plains" :> "plains"
  @@ "plains" :> "plains"
  @@ "Swamp" :> "swamp"
  @@ "swamp" :> "swamp"
  @@ "Mountain" :> "mountain"
  @@ "mountain" :> "mountain"
  @@ "Forest" :> "forest"
  @@ "forest" :> "forest"
  @@ "Command Tower" :> "command tower"
  @@ "command tower" :> "command tower"
  @@ "Tibor and Lumia" :> "tibor and lumia"
  @@ "tibor and lumia" :> "tibor and lumia"
  @@ "" :> ""
  @@ "Expropriate" :> "expropriate"
  @@ "expropriate" :> "expropriate"
  @@ "Jokulhaups" :> "jokulhaups"
  @@ "jokulhaups" :> "jokulhaups"
  @@ " Sol Ring" :> " sol ring"
  @@ " sol ring" :> " sol ring"

\* String.prototype.trim, tabulated over the names of the model
TrimOf ==
     "Sol Ring" :> "Sol Ring"
  @@ "sol ring" :> "sol ring"
  @@ "SOL RING" :> "SOL RING"
  @@ "Island" :> "Island"
  @@ "island" :> "island"
  @@ "Swords to Plowshares" :> "Swords to Plowshares"
  @@ "swords to plowshares" :> "swords to plowshares"
  @@ "Repulse" :> "Repulse"
  @@ "repulse" :> "repulse"
  @@ "Wrath of God" :> "Wrath of God"
  @@ "wrath of god" :> "wrath of god"
  @@ "Rhystic Study" :> "Rhystic Study"
  @@ "rhystic study" :> "rhystic study"
  @@ "rhystic study " :> "rhystic study"
  @@ "Demonic Tutor" :> "Demonic Tutor"
  @@ "demonic tutor" :> "demonic tutor"
  @@ "Time Warp" :> "Time Warp"
  @@ "time warp" :> "time warp"
  @@ "Armageddon" :> "Armageddon"
  @@ "armageddon" :> "armageddon"
  @@ "Counterspell" :> "Counterspell"
  @@ "counterspell" :> "counterspell"
  @@ "Thassa's Oracle" :> "Thassa's Oracle"
  @@ "thassa's oracle" :> "thassa's oracle"
  @@ "Mystery Card" :> "Mystery Card"
  @@ "mystery card" :> "mystery card"
  @@ "Cyclonic Rift" :> "Cyclonic Rift"
  @@ "cyclonic rift" :> "cyclonic rift"
  @@ " Time Warp" :> "Time Warp"
  @@ " time warp" :> "time warp"
  @@ "Niv-Mizzet, Parun" :> "Niv-Mizzet, Parun"
  @@ "niv-mizzet, parun" :> "niv-mizzet, parun"
  @@ "Wastes" :> "Wastes"
  @@ "wastes" :> "wastes"
  @@ "Plains" :> "Plains"
  @@ "plains" :> "plains"
  @@ "Swamp" :> "Swamp"
  @@ "swamp" :> "swamp"
  @@ "Mountain" :> "Mountain"
  @@ "mountain" :> "mountain"
  @@ "Forest" :> "Forest"
  @@ "forest" :> "forest"
  @@ "Command Tower" :> "Command Tower"
  @@ "command tower" :> "command tower"
  @@ "Tibor and Lumia" :> "Tibor and Lumia"
  @@ "tibor and lumia" :> "tibor and lumia"
  @@ "" :> ""
  @@ "Expropriate" :> "Expropriate"
  @@ "expropriate" :> "expropriate"
  @@ "Jokulhaups" :> "Jokulhaups"
  @@ "jokulhaups" :> "jokulhaups"
  @@ " Sol Ring" :> "Sol Ring"
  @@ " sol ring" :> "sol ring"

\* the patterns that are substrings of each sentence or word
PatternsIn ==
     "{T}: Add {C}{C}." :> {}
  @@ "{t}: add {c}{c}." :> {"add {", "{t}: add"}
  @@ "Search your library for a land card, put it onto the battlefield." :> {"land", "card"}
  @@ "search your library for a land card, put it onto the battlefield." :> {"search your library for a land", "land", "card", "search your library"}
  @@ "Search your library for a basic land card, reveal it, put it into your hand." :> {"land", "card"}
  @@ "search your library for a basic land card, reveal it, put it into your hand." :> {"search your library for a basic land", "land", "card", "search your library"}
  @@ "Search your library for up to two basic land cards." :> {"land", "card"}
  @@ "search your library for up to two basic land cards." :> {"search your library for up to", "land", "card", "search your library"}
  @@ "You may put a land card from your hand onto the battlefield." :> {"land", "put a land card from your hand onto the battlefield", "card"}
  @@ "you may put a land card from your hand onto the battlefield." :> {"land", "put a land card from your hand onto the battlefield", "you may put a land card", "card"}
  @@ "Destroy target creature." :> {"target", "creature"}
  @@ "destroy target creature." :> {"destroy target", "target", "destroy", "creature"}
  @@ "Exile target creature." :> {"target", "creature"}
  @@ "exile target creature." :> {"exile target", "target", "creature"}
  @@ "Destroy all creatures." :> {"creature"}
  @@ "destroy all creatures." :> {"destroy all", "destroy all creatures", "destroy", "creature"}
  @@ "Exile all creatures." :> {"creature"}
  @@ "exile all creatures." :> {"exile all", "exile all creatures", "creature"}
  @@ "Destroy all nonland permanents." :> {"land"}
  @@ "destroy all nonland permanents." :> {"land", "destroy all", "destroy all nonland permanents", "destroy"}
  @@ "Destroy all permanents." :> {}
  @@ "destroy all permanents." :> {"destroy all", "destroy all permanents", "destroy"}
  @@ "Destroy all lands." :> {"land"}
  @@ "destroy all lands." :> {"land", "destroy all", "destroy"}
  @@ "Lightning Bolt deals 3 damage to any target." :> {"damage to any target", "target"}
  @@ "lightning bolt deals 3 damage to any target." :> {"damage to any target", "target"}
  @@ "Shock deals 2 damage to target creature." :> {"damage to target", "target", "creature"}
  @@ "shock deals 2 damage to target creature." :> {"damage to target", "target", "creature"}
  @@ "Return target creature to its owner's hand." :> {"to its owner", "target", "creature"}
  @@ "return target creature to its owner's hand." :> {"return target", "to its owner", "target", "creature"}
  @@ "Target creature gets -3/-3 until end of turn." :> {"gets -", "creature"}
  @@ "target creature gets -3/-3 until end of turn." :> {"target", "gets -", "creature"}
  @@ "Each creature gets -2/-2 until end of turn." :> {"gets -", "creature"}
  @@ "each creature gets -2/-2 until end of turn." :> {"gets -", "each creature", "each creature gets -", "creature"}
  @@ "Destroy each creature with power 4 or greater." :> {"each creature", "creature"}
  @@ "destroy each creature with power 4 or greater." :> {"each creature", "destroy", "creature"}
  @@ "All creatures get -2/-2 until end of turn." :> {"creature"}
  @@ "all creatures get -2/-2 until end of turn." :> {"all creatures get -", "creature"}
  @@ "Draw a card." :> {"card"}
  @@ "draw a card." :> {"draw a card", "draw", "card"}
  @@ "Draw three cards." :> {"card"}
  @@ "draw three cards." :> {"draw three cards", "draw", "card"}
  @@ "Whenever an opponent draws a card, you gain 1 life." :> {"draw", "card"}
  @@ "whenever an opponent draws a card, you gain 1 life." :> {"draw", "card"}
  @@ "Hexproof" :> {}
  @@ "hexproof" :> {"hexproof"}
  @@ "Indestructible" :> {}
  @@ "indestructible" :> {"indestructible"}
  @@ "Ward {2}" :> {}
  @@ "ward {2}" :> {"ward"}
  @@ "Create a Reward token." :> {"ward"}
  @@ "create a reward token." :> {"ward"}
  @@ "Counter target spell." :> {"target", "spell"}
  @@ "counter target spell." :> {"target", "counter target", "spell"}
  @@ "Search your library for a card, put that card into your hand." :> {"card"}
  @@ "search your library for a card, put that card into your hand." :> {"card", "search your library for a card", "search your library"}
  @@ "Search your library for an Aura card, reveal it." :> {"card"}
  @@ "search your library for an aura card, reveal it." :> {"card", "search your library for an", "search your library"}
  @@ "Search your library for an instant card, reveal it." :> {"card", "instant"}
  @@ "search your library for an instant card, reveal it." :> {"card", "search your library for an", "search your library", "instant"}
  @@ "You win the game." :> {}
  @@ "you win the game." :> {"you win the game"}
  @@ "This deals damage to any target equal to 50." :> {"damage to any target", "target", "deals damage to any target", "50"}
  @@ "this deals damage to any target equal to 50." :> {"damage to any target", "target", "deals damage to any target", "50"}
  @@ "Take an extra turn after this one." :> {}
  @@ "take an extra turn after this one." :> {}
  @@ "Flying" :> {}
  @@ "flying" :> {}
  @@ "Land" :> {}
  @@ "land" :> {"land"}
  @@ "Island" :> {"land"}
  @@ "island" :> {"land"}
  @@ "Artifact" :> {}
  @@ "artifact" :> {"artifact"}
  @@ "Creature" :> {}
  @@ "creature" :> {"creature"}
  @@ "Planeswalker" :> {}
  @@ "planeswalker" :> {"planeswalker"}
  @@ "Instant" :> {}
  @@ "instant" :> {"instant"}
  @@ "Sorcery" :> {}
  @@ "sorcery" :> {"sorcery"}
  @@ "Enchantment" :> {}
  @@ "enchantment" :> {"enchantment"}
  @@ "Legendary" :> {}
  @@ "legendary" :> {}
\* ---- end of vocabulary tables ----

\* String.prototype.toLowerCase on a text (card.type_line || '').toLowerCase()
toLowerCase(text) == {LowerCaseOf[s] : s \in text}

\* String.prototype.includes: case-sensitive substring test
includes(text, pattern) == \E s \in text : pattern \in PatternsIn[s]

(* ----------------------------- roles.ts ------------------------------- *)
\* the "card not found" result of getCardByName (null)
NotFound == [found |-> FALSE]

isRamp(typeLine, oracleText) ==
  \/ (includes(typeLine, "artifact") /\ includes(oracleText, "add {"))
  \/ includes(oracleText, "search your library for a land")
  \/ includes(oracleText, "search your library for a basic land")
  \/ (includes(oracleText, "search your library for up to") /\ includes(oracleText, "land"))
  \/ (includes(typeLine, "creature") /\ includes(oracleText, "{t}: add"))
  \/ includes(oracleText, "put a land card from your hand onto the battlefield")
  \/ includes(oracleText, "you may put a land card")

isTargetRemoval(typeLine, oracleText) ==
  /\ \/ (includes(oracleText, "destroy target") /\ ~includes(oracleText, "destroy all"))
     \/ (includes(oracleText, "exile target") /\ ~includes(oracleText, "exile all"))
     \/ (includes(oracleText, "damage to target") \/ includes(oracleText, "damage to any target"))
     \/ (includes(oracleText, "return target") /\ includes(oracleText, "to its owner"))
     \/ (includes(oracleText, "target") /\ includes(oracleText, "gets -"))
  /\ ~includes(oracleText, "destroy all")
  /\ ~includes(oracleText, "each creature")

isBoardWipe(typeLine, oracleText) ==
  \/ includes(oracleText, "destroy all creatures")
  \/ includes(oracleText, "destroy all nonland permanents")
  \/ includes(oracleText, "destroy all permanents")
  \/ includes(oracleText, "each creature gets -")
  \/ (includes(oracleText, "each creature") /\ includes(oracleText, "destroy"))
  \/ includes(oracleText, "all creatures get -")
  \/ includes(oracleText, "exile all creatures")

isCardDraw(typeLine, oracleText) ==
  \/ includes(oracleText, "draw a card")
  \/ includes(oracleText, "draw two cards")
  \/ includes(oracleText, "draw three cards")
  \/ includes(oracleText, "draw cards equal to")
  \/ includes(oracleText, "draw that many cards")
  \/ (includes(oracleText, "draw") /\ includes(oracleText, "card"))

isProtection(typeLine, oracleText) ==
  \/ includes(oracleText, "hexproof")
  \/ includes(oracleText, "indestructible")
  \/ includes(oracleText, "protection from")
  \/ includes(oracleText, "shroud")
  \/ includes(oracleText, "ward")
  \/ includes(oracleText, "prevent all damage")
  \/ (includes(oracleText, "counter target") /\ includes(oracleText, "spell"))

isTutor(typeLine, oracleText) ==
  \/ includes(oracleText, "search your library for a card")
  \/ (includes(oracleText, "search your library for an") /\ ~includes(oracleText, "land"))
  \/ /\ includes(oracleText, "search your library")
     /\ \/ includes(oracleText, "creature")
        \/ includes(oracleText, "artifact")
        \/ includes(oracleText, "enchantment")
        \/ includes(oracleText, "instant")
        \/ includes(oracleText, "sorcery")

isWincon(typeLine, oracleText) ==
  \/ includes(oracleText, "you win the game")
  \/ (includes(oracleText, "deals damage to any target") /\ includes(oracleText, "50"))
  \/ includes(oracleText, "infinite")
  \/ (includes(typeLine, "planeswalker") /\ includes(oracleText, "emblem"))

\* the role checks in the order classifyCardRoles pushes them
pushIf(roles, cond, role) == IF cond THEN Append(roles, role) ELSE roles

\* mutant: the early return for lands is missing (land is pushed like any
\* other role and the remaining checks still run)
classifyCardRoles_NoEarlyReturn(card) ==
  IF ~card.found THEN <<"other">>
  ELSE
    LET typeLine == toLowerCase(card.type_line)
        oracleText == toLowerCase(card.oracle_text)
        r0 == pushIf(<<>>, includes(typeLine, "land"), "land")
        r1 == pushIf(r0, isRamp(typeLine, oracleText), "ramp")
        r2 == pushIf(r1, isTargetRemoval(typeLine, oracleText), "target_removal")
        r3 == pushIf(r2, isBoardWipe(typeLine, oracleText), "board_wipe")
        r4 == pushIf(r3, isCardDraw(typeLine, oracleText), "card_draw")
        r5 == pushIf(r4, isProtection(typeLine, oracleText), "protection")
        r6 == pushIf(r5, isTutor(typeLine, oracleText), "tutor")
        r7 == pushIf(r6, isWincon(typeLine, oracleText), "wincon")
    IN  IF Len(r7) = 0 THEN <<"other">> ELSE r7

\* mutant: `other` is pushed whenever no removal/draw role matched
classifyCardRoles_OtherTooOften(card) ==
  IF ~card.found THEN <<"other">>
  ELSE
    LET typeLine == toLowerCase(card.type_line)
        oracleText == toLowerCase(card.oracle_text)
    IN
    IF includes(typeLine, "land") THEN <<"land">>
    ELSE
      LET r1 == pushIf(<<>>, isRamp(typeLine, oracleText), "ramp")
          r2 == pushIf(r1, isTargetRemoval(typeLine, oracleText), "target_removal")
          r3 == pushIf(r2, isBoardWipe(typeLine, oracleText), "board_wipe")
          r4 == pushIf(r3, isCardDraw(typeLine, oracleText), "card_draw")
          r5 == pushIf(r4, isProtection(typeLine, oracleText), "protection")
          r6 == pushIf(r5, isTutor(typeLine, oracleText), "tutor")
          r7 == pushIf(r6, isWincon(typeLine, oracleText), "wincon")
      IN  IF Len(r4) = 0 THEN Append(r7, "other") ELSE r7

classifyCardRoles(card) ==
  IF ~card.found THEN <<"other">>
  ELSE
    LET typeLine == toLowerCase(card.type_line)
        oracleText == toLowerCase(card.oracle_text)
    IN
    IF includes(typeLine, "land") THEN <<"land">>
    ELSE
      LET r1 == pushIf(<<>>, isRamp(typeLine, oracleText), "ramp")
          r2 == pushIf(r1, isTargetRemoval(typeLine, oracleText), "target_removal")
          r3 == pushIf(r2, isBoardWipe(typeLine, oracleText), "board_wipe")
          r4 == pushIf(r3, isCardDraw(typeLine, oracleText), "card_draw")
          r5 == pushIf(r4, isProtection(typeLine, oracleText), "protection")
          r6 == pushIf(r5, isTutor(typeLine, oracleText), "tutor")
          r7 == pushIf(r6, isWincon(typeLine, oracleText), "wincon")
      IN  IF Len(r7) = 0 THEN <<"other">> ELSE r7

\* cardRolesToCategories: the builder's role -> category mapping (a set)
cardRolesToCategories(roles) ==
  {c \in {"ramp", "card_draw", "target_removal", "board_wipes"} :
     \E i \in 1..Len(roles) :
        \/ (roles[i] = "ramp" /\ c = "ramp")
        \/ (roles[i] = "card_draw" /\ c = "card_draw")
        \/ (roles[i] = "target_removal" /\ c = "target_removal")
        \/ (roles[i] = "board_wipe" /\ c = "board_wipes")}

(* ------------------------- static data files -------------------------- *)
\* outcomes of reading a data file: the file is missing, or it is there but
\* is not a valid document
ENOENT == "ENOENT"
INVALID == "INVALID"
Missing == [state |-> ENOENT]
Broken == [state |-> INVALID]
Present(doc) == [state |-> "ok", doc |-> doc]

Category(name, min, max) == [name |-> name, min |-> min, max |-> max]

\* data/deck-template-bracket3.json
TemplateBracket3 ==
  [id |-> "bracket3",
   categories |-> <<Category("lands", Some(35), Some(38)),
                    Category("ramp", Some(8), Some(10)),
                    Category("card_draw", Some(8), Some(10)),
                    Category("target_removal", Some(6), Some(8)),
                    Category("board_wipes", Some(3), Some(4))>>]

\* data/deck-template-default.json
TemplateDefault ==
  [id |-> "default",
   categories |-> <<Category("lands", Some(34), Some(41)),
                    Category("ramp", Some(1), None),
                    Category("card_draw", None, Some(1)),
                    Category("target_removal", Some(1), Some(2)),
                    Category("protection", None, None)>>]

\* a further template, with small ranges, category names of its own and a
\* range whose minimum is above its maximum (the loader validates nothing)
TemplateCustom ==
  [id |-> "custom",
   categories |-> <<Category("lands", Some(1), Some(2)),
                    Category("ramp", Some(2), Some(3)),
                    Category("card_draw", Some(1), Some(1)),
                    Category("target_removal", Some(1), None),
                    Category("board_wipes", Some(1), Some(1)),
                    Category("protection", Some(2), Some(0)),
                    Category("tutor", None, None),
                    Category("wincon", None, Some(0)),
                    Category("other", Some(1), Some(1)),
                    Category("creatures", Some(20), Some(30)),
                    Category("planeswalkers", None, Some(5))>>]

\* a deck-template-custom.json whose land range fills the whole deck
TemplateLandHeavy ==
  [id |-> "custom",
   categories |-> <<Category("lands", Some(98), Some(99)),
                    Category("ramp", Some(2), Some(3)),
                    Category("card_draw", Some(1), Some(1))>>]

Templates == {TemplateBracket3, TemplateDefault, TemplateCustom}

\* data/bracket-rules.json
BracketRulesData ==
  [brackets |->
     ("bracket3" :> [id |-> "bracket3", label |-> "Bracket 3 (Upgraded)",
                     maxGameChangers |-> 3, allowMassLandDestruction |-> FALSE,
                     allowInfiniteTwoCardCombosBeforeTurnSix |-> FALSE,
                     maxExtraTurnCards |-> None])
     @@
     ("custom" :> [id |-> "custom", label |-> "Custom bracket",
                   maxGameChangers |-> 1, allowMassLandDestruction |-> TRUE,
                   allowInfiniteTwoCardCombosBeforeTurnSix |-> TRUE,
                   maxExtraTurnCards |-> Some(1)])]

\* data/bracket3-game-changers.json, -mass-land-denial.json, -extra-turns.json
CardListsBracket3 ==
  [gameChangers |-> <<"rhystic study ", "Demonic Tutor", "Thassa's Oracle", "Cyclonic Rift">>,
   massLandDenial |-> <<"Armageddon", "Jokulhaups">>,
   extraTurns |-> <<" Time Warp", "Expropriate">>]

\* data/custom-game-changers.json, -mass-land-denial.json, -extra-turns.json
CardListsCustom ==
  [gameChangers |-> <<"Sol Ring", "Demonic Tutor", "Rhystic Study", "Repulse">>,
   massLandDenial |-> <<"Armageddon", "Jokulhaups">>,
   extraTurns |-> <<" Time Warp", "Expropriate">>]

OracleEntry(name, lang, typeLine, oracleText, colors) ==
  [found |-> TRUE, name |-> name, lang |-> lang, type_line |-> typeLine,
   oracle_text |-> oracleText, color_identity |-> colors]

\* data/oracle-cards.json (a non-English printing of Sol Ring comes first;
\* color_identity is in the order the file lists it, which need not be WUBRG)
OracleCards ==
  <<OracleEntry("Sol Ring", "es", {"Artifact"}, {}, <<>>),
    OracleEntry("Sol Ring", "en", {"Artifact"}, {"{T}: Add {C}{C}."}, <<>>),
    OracleEntry("Island", "en", {"Land", "Island"}, {}, <<"U">>),
    OracleEntry("Swords to Plowshares", "en", {"Instant"}, {"Exile target creature."}, <<"W">>),
    OracleEntry("Repulse", "en", {"Instant"},
                {"Return target creature to its owner's hand.", "Draw a card."}, <<"U">>),
    OracleEntry("Wrath of God", "en", {"Sorcery"}, {"Destroy all creatures."}, <<"W">>),
    OracleEntry("Rhystic Study", "en", {"Enchantment"},
                {"Whenever an opponent draws a card, you gain 1 life."}, <<"U">>),
    OracleEntry("Demonic Tutor", "en", {"Sorcery"},
                {"Search your library for a card, put that card into your hand."}, <<"B">>),
    OracleEntry("Time Warp", "en", {"Sorcery"}, {"Take an extra turn after this one."}, <<"U">>),
    OracleEntry("Armageddon", "en", {"Sorcery"}, {"Destroy all lands."}, <<"W">>),
    OracleEntry("Counterspell", "en", {"Instant"}, {"Counter target spell."}, <<"U">>),
    OracleEntry("Thassa's Oracle", "en", {"Creature"}, {"You win the game."}, <<"U">>),
    OracleEntry("Niv-Mizzet, Parun", "en", {"Legendary", "Creature"}, {"Flying", "Draw a card."},
                <<"U", "R">>),
    OracleEntry("Tibor and Lumia", "en", {"Legendary", "Creature"}, {"Flying"}, <<"R", "U">>),
    OracleEntry("Expropriate", "en", {"Sorcery"},
                {"Take an extra turn after this one.", "Draw a card."}, <<"U">>),
    OracleEntry("Jokulhaups", "en", {"Sorcery"},
                {"Destroy all creatures.", "Destroy all lands."}, <<"R">>)>>

\* the data directory: which files exist, and what they hold
DataDir(t3, td, tc, rules, l3, lc, oracle) ==
  [templates |-> ("bracket3" :> t3) @@ ("default" :> td) @@ ("custom" :> tc),
   rules |-> rules,
   cardLists |-> ("bracket3" :> l3) @@ ("custom" :> lc),
   oracle |-> oracle]

AllPresent ==
  DataDir(Present(TemplateBracket3), Present(TemplateDefault), Present(TemplateCustom),
          Present(BracketRulesData), Present(CardListsBracket3), Present(CardListsCustom),
          Present(OracleCards))

\* the data directories the model starts from: complete, or with one or
\* two files missing or broken
DataDirs ==
  {AllPresent,
   [AllPresent EXCEPT !.templates["custom"] = Missing],
   [AllPresent EXCEPT !.templates["bracket3"] = Missing],
   [AllPresent EXCEPT !.templates["bracket3"] = Broken],
   [AllPresent EXCEPT !.templates["custom"] = Missing, !.templates["default"] = Missing],
   [AllPresent EXCEPT !.rules = Missing],
   [AllPresent EXCEPT !.cardLists["bracket3"] = Missing],
   [AllPresent EXCEPT !.oracle = Missing]}

(* ------------------------------ caches -------------------------------- *)
EmptyMap == [k \in {} |-> k]
Put(m, k, v) == [x \in (DOMAIN m) \cup {k} |-> IF x = k THEN v ELSE m[x]]

\* JavaScript truthiness of an optional string (`x || fallback`, `if (x)`)
Truthy(o) == IsSome(o) /\ ValueOf(o) # ""

(* --------------------------- templates.ts ----------------------------- *)
readTemplateFile(fs, id) ==
  IF id \in DOMAIN fs.templates THEN fs.templates[id] ELSE Missing

\* every read error an exception, without the fall-back to "default"
loadDeckTemplate_NoFallback(cache, fs, templateId) ==
  LET id == IF Truthy(templateId) THEN ValueOf(templateId) ELSE "default"
      file == readTemplateFile(fs, id)
  IN
  IF id \in DOMAIN cache
    THEN [threw |-> FALSE, template |-> Some(cache[id]), cache |-> cache, warned |-> <<>>]
  ELSE IF file.state = "ok"
    THEN [threw |-> FALSE, template |-> Some(file.doc),
          cache |-> Put(cache, id, file.doc), warned |-> <<>>]
  ELSE [threw |-> TRUE, template |-> None, cache |-> cache, warned |-> <<>>]

\* loadDeckTemplate: the template (or the exception), the cache afterwards
\* and the ids console.warn reported as not found
RECURSIVE loadDeckTemplate(_, _, _)
loadDeckTemplate(cache, fs, templateId) ==
  LET id == IF Truthy(templateId) THEN ValueOf(templateId) ELSE "default"
  IN
  IF id \in DOMAIN cache
    THEN [threw |-> FALSE, template |-> Some(cache[id]), cache |-> cache, warned |-> <<>>]
  ELSE
    LET file == readTemplateFile(fs, id) IN
    IF file.state = "ok"
      THEN [threw |-> FALSE, template |-> Some(file.doc),
            cache |-> Put(cache, id, file.doc), warned |-> <<>>]
    ELSE IF id # "default" /\ file.state = ENOENT
      THEN LET r == loadDeckTemplate(cache, fs, Some("default"))
           IN  [r EXCEPT !.warned = <<id>> \o @]
    ELSE [threw |-> TRUE, template |-> None, cache |-> cache, warned |-> <<>>]

(* ---------------------------- brackets.ts ----------------------------- *)
\* the rules data lost once it is cached: a second load fails
loadBracketRulesData_CacheLost(cache, fs) ==
  IF IsSome(cache) THEN [threw |-> TRUE, data |-> None, cache |-> cache]
  ELSE IF fs.rules.state = "ok"
    THEN [threw |-> FALSE, data |-> Some(fs.rules.doc), cache |-> Some(fs.rules.doc)]
  ELSE [threw |-> TRUE, data |-> None, cache |-> cache]

loadBracketRulesData(cache, fs) ==
  IF IsSome(cache) THEN [threw |-> FALSE, data |-> cache, cache |-> cache]
  ELSE IF fs.rules.state = "ok"
    THEN [threw |-> FALSE, data |-> Some(fs.rules.doc), cache |-> Some(fs.rules.doc)]
  ELSE [threw |-> TRUE, data |-> None, cache |-> cache]

loadBracketRules(cache, fs, bracketId) ==
  LET d == loadBracketRulesData(cache, fs) IN
  IF d.threw THEN [threw |-> TRUE, rules |-> None, cache |-> d.cache]
  ELSE IF bracketId \notin DOMAIN ValueOf(d.data).brackets
    THEN [threw |-> TRUE, rules |-> None, cache |-> d.cache]
  ELSE [threw |-> FALSE, rules |-> Some(ValueOf(d.data).brackets[bracketId]), cache |-> d.cache]

(* -------------------------- bracketCards.ts --------------------------- *)
normalizeCardName(name) == LowerCaseOf[TrimOf[name]]

loadBracketCardLists(cache, fs, bracketId) ==
  IF bracketId \in DOMAIN cache
    THEN [threw |-> FALSE, lists |-> Some(cache[bracketId]), cache |-> cache]
  ELSE
    LET file == IF bracketId \in DOMAIN fs.cardLists THEN fs.cardLists[bracketId] ELSE Missing
    IN  IF file.state = "ok"
          THEN [threw |-> FALSE, lists |-> Some(file.doc), cache |-> Put(cache, bracketId, file.doc)]
        ELSE [threw |-> TRUE, lists |-> None, cache |-> cache]

onList(list, name) ==
  \E i \in 1..Len(list) : normalizeCardName(list[i]) = normalizeCardName(name)

isGameChanger(cache, fs, name, bracketId) ==
  LET l == loadBracketCardLists(cache, fs, bracketId)
  IN  IF l.threw THEN FALSE ELSE onList(ValueOf(l.lists).gameChangers, name)

isMassLandDenial(cache, fs, name, bracketId) ==
  LET l == loadBracketCardLists(cache, fs, bracketId)
  IN  IF l.threw THEN FALSE ELSE onList(ValueOf(l.lists).massLandDenial, name)

isExtraTurnCard(cache, fs, name, bracketId) ==
  LET l == loadBracketCardLists(cache, fs, bracketId)
  IN  IF l.threw THEN FALSE ELSE onList(ValueOf(l.lists).extraTurns, name)

(* ---------------------------- scryfall.ts ----------------------------- *)
loadOracleCards(cache, fs) ==
  IF IsSome(cache) THEN [threw |-> FALSE, cards |-> cache, cache |-> cache]
  ELSE IF fs.oracle.state = "ok"
    THEN [threw |-> FALSE, cards |-> Some(fs.oracle.doc), cache |-> Some(fs.oracle.doc)]
  ELSE [threw |-> TRUE, cards |-> None, cache |-> cache]

MinOf(S) == CHOOSE x \in S : \A y \in S : x <= y

\* getCardByName over the loaded cards: the first English card of that
\* name, else the first card of that name, else null
getCardByName(cards, name) ==
  LET target == LowerCaseOf[TrimOf[name]]
      matches == {i \in 1..Len(cards) : LowerCaseOf[TrimOf[cards[i].name]] = target}
      english == {i \in matches : cards[i].lang = "en"}
  IN  IF english # {} THEN cards[MinOf(english)]
      ELSE IF matches # {} THEN cards[MinOf(matches)]
      ELSE NotFound

(* --------------------------- deckParser.ts ---------------------------- *)
\* a line of deck text: blank, a line the card pattern does not match, or
\* "<quantity> <name>". The pattern /^\s*(\d+)\s+(.+?)\s*$/ is applied to the
\* trimmed line, so it does not match "<quantity> <name>" when the name is
\* empty or white space only: nothing is left behind the quantity.
BlankLine == [kind |-> "blank"]
NoiseLine == [kind |-> "noise"]
EntryLine(quantity, name) == [kind |-> "entry", quantity |-> quantity, name |-> name]

parseLines(lines) ==
  Bind(SelectSeq(lines, LAMBDA line : line.kind = "entry" /\ TrimOf[line.name] # ""),
       LAMBDA matched :
    [i \in 1..Len(matched) |->
       [rawLine |-> matched[i], quantity |-> matched[i].quantity,
        name |-> TrimOf[matched[i].name]]])

parseDeckText(deckText) == [cards |-> parseLines(deckText), commanderName |-> None]

(* ---------------------------- analyzer.ts ----------------------------- *)
COMMANDER_DECK_SIZE == 99

\* the sum of the elements of q from the a-th to the b-th
RECURSIVE SumBetween(_, _, _)
SumBetween(q, a, b) ==
  IF a > b THEN 0
  ELSE IF a = b THEN q[a]
  ELSE SumBetween(q, a, (a + b) \div 2) + SumBetween(q, (a + b) \div 2 + 1, b)

\* the sum of the first n elements of q
SumUpTo(q, n) == SumBetween(q, 1, n)

SumSeq(q) == Bind(q, LAMBDA v : SumUpTo(v, Len(v)))

\* "below" already at the minimum
calculateCategoryStatus_BelowAtMin(count, min, max) ==
  IF ~IsSome(min) /\ ~IsSome(max) THEN "unknown"
  ELSE IF IsSome(min) /\ count <= ValueOf(min) THEN "below"
  ELSE IF IsSome(max) /\ count > ValueOf(max) THEN "above"
  ELSE "within"

calculateCategoryStatus(count, min, max) ==
  IF ~IsSome(min) /\ ~IsSome(max) THEN "unknown"
  ELSE IF IsSome(min) /\ IsSome(max)
    THEN IF count < ValueOf(min) THEN "below"
         ELSE IF count > ValueOf(max) THEN "above"
         ELSE "within"
  ELSE IF IsSome(min)
    THEN IF count < ValueOf(min) THEN "below" ELSE "within"
  ELSE IF IsSome(max)
    THEN IF count > ValueOf(max) THEN "above" ELSE "within"
  ELSE "unknown"

roleToCategoryMap ==
  ("land" :> "lands") @@ ("ramp" :> "ramp") @@ ("target_removal" :> "target_removal") @@
  ("board_wipe" :> "board_wipes") @@ ("card_draw" :> "card_draw") @@
  ("protection" :> "protection") @@ ("tutor" :> "tutor") @@ ("wincon" :> "wincon")

\* a fallback that pluralises the role name instead of keeping it
roleToCategory_Pluralised(role) ==
  IF role \in DOMAIN roleToCategoryMap THEN roleToCategoryMap[role]
  ELSE IF role = "other" THEN "others" ELSE role

\* roleToCategoryMap[role] || role
roleToCategory(role) ==
  IF role \in DOMAIN roleToCategoryMap THEN roleToCategoryMap[role] ELSE role

\* an increment of one per matching role, whatever the entry's quantity
entryIncrement_IgnoresQuantity(entry, entryRoles, name) ==
  Cardinality({i \in 1..Len(entryRoles) : roleToCategory(entryRoles[i]) = name})

\* what one deck entry adds to category `name`: its quantity, once for each
\* of its roles that maps to that category
entryIncrement(entry, entryRoles, name) ==
  entry.quantity * Cardinality({i \in 1..Len(entryRoles) : roleToCategory(entryRoles[i]) = name})

\* categoryCounts after the classification loop
categoryCountsOf(template, entries, rolesOf) ==
  [name \in {template.categories[i].name : i \in 1..Len(template.categories)} |->
     SumSeq([k \in 1..Len(entries) |-> entryIncrement(entries[k], rolesOf[k], name)])]

keyCategories == {"lands", "ramp", "target_removal", "board_wipes", "card_draw"}

\* the size comparison with <= in place of <
SizeNote_CorrectIsBelow(totalCards) ==
  IF totalCards <= COMMANDER_DECK_SIZE THEN [kind |-> "size_below", total |-> totalCards]
  ELSE [kind |-> "size_above", total |-> totalCards]

SizeNote(totalCards) ==
  IF totalCards < COMMANDER_DECK_SIZE THEN [kind |-> "size_below", total |-> totalCards]
  ELSE IF totalCards > COMMANDER_DECK_SIZE THEN [kind |-> "size_above", total |-> totalCards]
  ELSE [kind |-> "size_correct", total |-> totalCards]

RECURSIVE categoryNotes(_)
categoryNotes(categories) ==
  IF categories = <<>> THEN <<>>
  ELSE LET cat == Head(categories)
           rest == categoryNotes(Tail(categories))
       IN  IF cat.name \in keyCategories /\ cat.status = "below"
             THEN <<[kind |-> "category_below", name |-> cat.name, count |-> cat.count,
                     min |-> cat.min, max |-> cat.max]>> \o rest
           ELSE IF cat.name \in keyCategories /\ cat.status = "above"
             THEN <<[kind |-> "category_above", name |-> cat.name, count |-> cat.count,
                     min |-> cat.min, max |-> cat.max]>> \o rest
           ELSE rest

\* the limit itself already reported as exceeded
gameChangerWarnings_ExceedAtMax(rules, gameChangerCount) ==
  IF gameChangerCount >= rules.maxGameChangers
    THEN <<[kind |-> "game_changers_exceed", count |-> gameChangerCount,
            bracket |-> rules.id, max |-> rules.maxGameChangers]>>
  ELSE IF gameChangerCount > 0
    THEN <<[kind |-> "game_changers_allowed", count |-> gameChangerCount,
            bracket |-> rules.id, max |-> rules.maxGameChangers]>>
  ELSE <<>>

gameChangerWarnings(rules, gameChangerCount) ==
  IF gameChangerCount > rules.maxGameChangers
    THEN <<[kind |-> "game_changers_exceed", count |-> gameChangerCount,
            bracket |-> rules.id, max |-> rules.maxGameChangers]>>
  ELSE IF gameChangerCount > 0
    THEN <<[kind |-> "game_changers_allowed", count |-> gameChangerCount,
            bracket |-> rules.id, max |-> rules.maxGameChangers]>>
  ELSE <<>>

massLandDenialWarnings(rules, hasMassLandDenial) ==
  IF ~rules.allowMassLandDestruction /\ hasMassLandDenial
    THEN <<[kind |-> "mass_land_denial", bracket |-> rules.id]>>
  ELSE <<>>

\* the configured limit itself already reported as exceeded
extraTurnWarnings_ExceedAtMax(rules, extraTurnCount) ==
  IF IsSome(rules.maxExtraTurnCards)
    THEN IF extraTurnCount >= ValueOf(rules.maxExtraTurnCards)
           THEN <<[kind |-> "extra_turns_exceed", count |-> extraTurnCount,
                   bracket |-> rules.id, max |-> ValueOf(rules.maxExtraTurnCards)]>>
         ELSE IF extraTurnCount > 0
           THEN <<[kind |-> "extra_turns_soft_limit", count |-> extraTurnCount,
                   bracket |-> rules.id, max |-> ValueOf(rules.maxExtraTurnCards)]>>
         ELSE <<>>
  ELSE IF extraTurnCount > 0
    THEN <<[kind |-> "extra_turns_info", count |-> extraTurnCount, bracket |-> rules.id]>>
  ELSE <<>>

extraTurnWarnings(rules, extraTurnCount) ==
  IF IsSome(rules.maxExtraTurnCards)
    THEN IF extraTurnCount > ValueOf(rules.maxExtraTurnCards)
           THEN <<[kind |-> "extra_turns_exceed", count |-> extraTurnCount,
                   bracket |-> rules.id, max |-> ValueOf(rules.maxExtraTurnCards)]>>
         ELSE IF extraTurnCount > 0
           THEN <<[kind |-> "extra_turns_soft_limit", count |-> extraTurnCount,
                   bracket |-> rules.id, max |-> ValueOf(rules.maxExtraTurnCards)]>>
         ELSE <<>>
  ELSE IF extraTurnCount > 0
    THEN <<[kind |-> "extra_turns_info", count |-> extraTurnCount, bracket |-> rules.id]>>
  ELSE <<>>

\* the process-wide caches and the data directory they are filled from
Process(fs, tCache, rCache, lCache, oCache) ==
  [files |-> fs, templateCache |-> tCache, bracketRulesCache |-> rCache,
   cardListsCache |-> lCache, cachedOracleCards |-> oCache]

\* an exception leaving the function, with the caches as they then are
Thrown(proc, where) == [threw |-> TRUE, error |-> where, proc |-> proc]
Returned(proc, value) == [threw |-> FALSE, value |-> value, proc |-> proc]

\* the body of analyzeDeckBasic once the template, the bracket rules and the
\* card data are loaded: the classification loop, the summaries, the notes
\* and the bracket warnings
analysisOf(proc, input, parsedDeck, t, r, o) ==
  LET fs == proc.files
      template == ValueOf(t.template)
      bracketRules == IF r.threw THEN None ELSE r.rules
      checked == IsSome(bracketRules)
      entries == parsedDeck.cards
      totalCards == SumSeq([k \in 1..Len(entries) |-> entries[k].quantity])
      uniqueCards == Len(entries)
      bracketId == IF Truthy(input.templateId) THEN ValueOf(input.templateId) ELSE "default"
      l == IF checked /\ Len(entries) > 0
             THEN loadBracketCardLists(proc.cardListsCache, fs, bracketId)
           ELSE [threw |-> FALSE, lists |-> None, cache |-> proc.cardListsCache]
      gameChangerCount ==
        SumSeq([k \in 1..Len(entries) |->
                  IF checked /\ isGameChanger(proc.cardListsCache, fs, entries[k].name, bracketId)
                    THEN entries[k].quantity ELSE 0])
      extraTurnCount ==
        SumSeq([k \in 1..Len(entries) |->
                  IF checked /\ isExtraTurnCard(proc.cardListsCache, fs, entries[k].name, bracketId)
                    THEN entries[k].quantity ELSE 0])
      hasMassLandDenial ==
        \E k \in 1..Len(entries) :
           checked /\ isMassLandDenial(proc.cardListsCache, fs, entries[k].name, bracketId)
      bracketWarnings ==
        IF checked
          THEN gameChangerWarnings(ValueOf(bracketRules), gameChangerCount)
               \o massLandDenialWarnings(ValueOf(bracketRules), hasMassLandDenial)
               \o extraTurnWarnings(ValueOf(bracketRules), extraTurnCount)
        ELSE <<>>
  IN
  Bind([k \in 1..Len(entries) |->
          classifyCardRoles(getCardByName(ValueOf(o.cards), entries[k].name))],
       LAMBDA rolesOf :
  Bind(categoryCountsOf(template, entries, rolesOf), LAMBDA categoryCounts :
  Bind([i \in 1..Len(template.categories) |->
          [name |-> template.categories[i].name,
           count |-> categoryCounts[template.categories[i].name],
           min |-> template.categories[i].min,
           max |-> template.categories[i].max,
           status |-> calculateCategoryStatus(categoryCounts[template.categories[i].name],
                                              template.categories[i].min,
                                              template.categories[i].max)]],
       LAMBDA categories :
    Returned(Process(fs, t.cache, r.cache, l.cache, o.cache),
             [input |-> [templateId |-> input.templateId, banlistId |-> input.banlistId],
              analysis |->
                [commanderName |-> parsedDeck.commanderName,
                 totalCards |-> totalCards,
                 uniqueCards |-> uniqueCards,
                 categories |-> categories,
                 notes |-> <<SizeNote(totalCards)>> \o categoryNotes(categories),
                 bracketId |-> IF checked THEN Some(ValueOf(bracketRules).id) ELSE None,
                 bracketLabel |-> IF checked THEN Some(ValueOf(bracketRules).label) ELSE None,
                 bracketWarnings |-> bracketWarnings],
              parsedDeck |-> parsedDeck]))))

\* the bracket-rules lookup outside its try/catch: its failure ends the call
analyzeDeckBasic_RulesFatal(proc, input, parsedDeck) ==
  Bind(loadDeckTemplate(proc.templateCache, proc.files, input.templateId), LAMBDA t :
    IF t.threw THEN Thrown(proc, "template")
    ELSE
      Bind(IF Truthy(input.templateId)
             THEN loadBracketRules(proc.bracketRulesCache, proc.files, ValueOf(input.templateId))
           ELSE [threw |-> FALSE, rules |-> None, cache |-> proc.bracketRulesCache],
           LAMBDA r :
      IF r.threw
        THEN Thrown(Process(proc.files, t.cache, r.cache, proc.cardListsCache,
                            proc.cachedOracleCards), "rules")
      ELSE
      Bind(IF Len(parsedDeck.cards) > 0
             THEN loadOracleCards(proc.cachedOracleCards, proc.files)
           ELSE [threw |-> FALSE, cards |-> None, cache |-> proc.cachedOracleCards],
           LAMBDA o :
        IF o.threw
          THEN Thrown(Process(proc.files, t.cache, r.cache, proc.cardListsCache, o.cache),
                      "oracle")
        ELSE analysisOf(proc, input, parsedDeck, t, r, o))))

analyzeDeckBasic(proc, input, parsedDeck) ==
  Bind(loadDeckTemplate(proc.templateCache, proc.files, input.templateId), LAMBDA t :
    IF t.threw THEN Thrown(proc, "template")
    ELSE
      Bind(IF Truthy(input.templateId)
             THEN loadBracketRules(proc.bracketRulesCache, proc.files, ValueOf(input.templateId))
           ELSE [threw |-> FALSE, rules |-> None, cache |-> proc.bracketRulesCache],
           LAMBDA r :
      Bind(IF Len(parsedDeck.cards) > 0
             THEN loadOracleCards(proc.cachedOracleCards, proc.files)
           ELSE [threw |-> FALSE, cards |-> None, cache |-> proc.cachedOracleCards],
           LAMBDA o :
        IF o.threw
          THEN Thrown(Process(proc.files, t.cache, r.cache, proc.cardListsCache, o.cache),
                      "oracle")
        ELSE analysisOf(proc, input, parsedDeck, t, r, o))))

(* ------------------------- analyzeDeckTool.ts ------------------------- *)
runAnalyzeDeck(proc, input) ==
  Bind(parseDeckText(input.deckText), LAMBDA parsedDeck :
    analyzeDeckBasic(proc, input, parsedDeck))

(* -------------------------- categoryUtils.ts -------------------------- *)
\* Array.prototype.find by category name
findByName(list, name) ==
  LET hits == {i \in 1..Len(list) : list[i].name = name}
  IN  IF hits = {} THEN None ELSE Some(list[MinOf(hits)])

Max(a, b) == IF a >= b THEN a ELSE b

\* the deficit without Math.max(0, ...)
computeCategoryDeficits_NoClamp(analysis, template, categoryNames) ==
  [k \in 1..Len(categoryNames) |->
     LET categoryName == categoryNames[k]
         categorySummary == findByName(analysis.categories, categoryName)
         currentCount == IF IsSome(categorySummary) THEN ValueOf(categorySummary).count ELSE 0
         templateConfig == findByName(template.categories, categoryName)
         min == IF IsSome(templateConfig) THEN ValueOf(templateConfig).min ELSE None
         max == IF IsSome(templateConfig) THEN ValueOf(templateConfig).max ELSE None
     IN  [name |-> categoryName, current |-> currentCount, min |-> min, max |-> max,
          deficit |-> (IF IsSome(min) THEN ValueOf(min) ELSE 0) - currentCount]]

computeCategoryDeficits(analysis, template, categoryNames) ==
  [k \in 1..Len(categoryNames) |->
     LET categoryName == categoryNames[k]
         categorySummary == findByName(analysis.categories, categoryName)
         currentCount == IF IsSome(categorySummary) THEN ValueOf(categorySummary).count ELSE 0
         templateConfig == findByName(template.categories, categoryName)
         min == IF IsSome(templateConfig) THEN ValueOf(templateConfig).min ELSE None
         max == IF IsSome(templateConfig) THEN ValueOf(templateConfig).max ELSE None
     IN  [name |-> categoryName, current |-> currentCount, min |-> min, max |-> max,
          deficit |-> Max(0, (IF IsSome(min) THEN ValueOf(min) ELSE 0) - currentCount)]]

(* ------------------------------ edhrec.ts ----------------------------- *)
\* a card view of an EDHREC page (name and rank may be absent)
CardView(name, rank) == [name |-> name, rank |-> rank]

\* the pages of json.edhrec.com the builder asks for, by path: the card
\* views of all their card lists, in order
EdhrecPages ==
  ("top/colorless.json" :> <<CardView(Some("Sol Ring"), Some(1)), CardView(None, None),
                             CardView(Some("Mystery Card"), None)>>) @@
  ("top/blue.json" :> <<CardView(Some("Rhystic Study"), Some(1)),
                        CardView(Some("Counterspell"), Some(2)),
                        CardView(Some("Repulse"), None), CardView(Some("Time Warp"), None),
                        CardView(Some("Cyclonic Rift"), None),
                        CardView(Some("Expropriate"), None)>>) @@
  ("top/red.json" :> <<CardView(Some("Sol Ring"), Some(1)), CardView(Some("sol ring"), Some(2)),
                       CardView(Some("Jokulhaups"), Some(3))>>) @@
  ("top/multicolor.json" :> <<CardView(Some("Repulse"), Some(1)),
                              CardView(Some("Swords to Plowshares"), Some(2)),
                              CardView(Some("Sol Ring"), Some(3))>>) @@
  ("lands/colorless.json" :> <<CardView(Some("Wastes"), Some(2)), CardView(Some("Sol Ring"), Some(1)),
                               CardView(Some(" Sol Ring"), Some(3))>>) @@
  ("lands/mono-blue.json" :> <<CardView(Some("Island"), Some(3)), CardView(Some("Repulse"), Some(1))>>) @@
  ("lands/mono-red.json" :> <<CardView(Some("Mountain"), None), CardView(Some("Island"), Some(1))>>) @@
  ("lands/lands.json" :> <<>>)

\* what one fetch gives: the page, or an error
Fetched(doc) == [ok |-> TRUE, doc |-> doc]
FetchFailed == [ok |-> FALSE]

\* fetchEdhrecJson: the cached page if there is one, else the page from the
\* network (cached from then on), else an error
fetchEdhrecJson(cache, network, path) ==
  IF path \in DOMAIN cache THEN [result |-> Fetched(cache[path]), cache |-> cache]
  ELSE IF path \in network /\ path \in DOMAIN EdhrecPages
    THEN [result |-> Fetched(EdhrecPages[path]), cache |-> Put(cache, path, EdhrecPages[path])]
  ELSE [result |-> FetchFailed, cache |-> cache]

\* extractSuggestionsFromJson: the named card views, ranked by their rank or
\* else their position
extractSuggestionsFromJson(json, sourceTag) ==
  LET named == SelectSeq([i \in 1..Len(json) |-> [view |-> json[i], position |-> i]],
                         LAMBDA e : Truthy(e.view.name))
  IN  [k \in 1..Len(named) |->
         [name |-> ValueOf(named[k].view.name),
          rank |-> IF IsSome(named[k].view.rank) THEN ValueOf(named[k].view.rank)
                   ELSE named[k].position,
          category |-> sourceTag]]

WUBRG == <<"W", "U", "B", "R", "G">>

\* normalizeColorIdentity: the known colours of the identity, in WUBRG order
normalizeColorIdentity(colorIdentity) ==
  SelectSeq(WUBRG, LAMBDA c : c \in Range(colorIdentity))

topColorMap ==
  ("W" :> "white") @@ ("U" :> "blue") @@ ("B" :> "black") @@ ("R" :> "red") @@ ("G" :> "green")

\* `top/${colorName}.json` and `lands/mono-${colorName}.json`
TopPath ==
  ("white" :> "top/white.json") @@ ("blue" :> "top/blue.json") @@ ("black" :> "top/black.json") @@
  ("red" :> "top/red.json") @@ ("green" :> "top/green.json")

LandsPath ==
  ("white" :> "lands/mono-white.json") @@ ("blue" :> "lands/mono-blue.json") @@
  ("black" :> "lands/mono-black.json") @@ ("red" :> "lands/mono-red.json") @@
  ("green" :> "lands/mono-green.json")

\* a page a task is going to fetch; an error on a fatal page ends the task
PageRequest(path, fatal) == [path |-> path, fatal |-> fatal]

\* the pages getTopCardsForColorIdentity fetches, in order
topCardsPages(colorIdentity) ==
  LET mapped == SelectSeq(colorIdentity, LAMBDA c : c \in DOMAIN topColorMap) IN
  IF Len(colorIdentity) = 0 THEN <<PageRequest("top/colorless.json", TRUE)>>
  ELSE IF Len(colorIdentity) = 1
    THEN [i \in 1..Len(mapped) |-> PageRequest(TopPath[topColorMap[mapped[i]]], TRUE)]
  ELSE <<PageRequest("top/multicolor.json", TRUE)>> \o
       [i \in 1..Len(mapped) |-> PageRequest(TopPath[topColorMap[mapped[i]]], FALSE)]

\* the pages getTopLandsForColorIdentity fetches, in order
topLandsPages(colorIdentity) ==
  LET normalized == normalizeColorIdentity(colorIdentity) IN
  IF normalized = <<>> THEN <<PageRequest("lands/colorless.json", FALSE)>>
  ELSE [i \in 1..Len(normalized) |-> PageRequest(LandsPath[topColorMap[normalized[i]]], FALSE)]
       \o <<PageRequest("lands/lands.json", FALSE)>>

\* the source tag of a page: its path without ".json"
SourceTag ==
  ("top/colorless.json" :> "top/colorless") @@ ("top/multicolor.json" :> "top/multicolor") @@
  ("top/white.json" :> "top/white") @@ ("top/blue.json" :> "top/blue") @@
  ("top/black.json" :> "top/black") @@ ("top/red.json" :> "top/red") @@
  ("top/green.json" :> "top/green") @@
  ("lands/colorless.json" :> "lands/colorless") @@ ("lands/lands.json" :> "lands/lands") @@
  ("lands/mono-white.json" :> "lands/mono-white") @@ ("lands/mono-blue.json" :> "lands/mono-blue") @@
  ("lands/mono-black.json" :> "lands/mono-black") @@ ("lands/mono-red.json" :> "lands/mono-red") @@
  ("lands/mono-green.json" :> "lands/mono-green")

\* a running getTopCardsForColorIdentity / getTopLandsForColorIdentity call:
\* the pages still to fetch, the suggestions and the names seen so far
Task(pages) == [pending |-> pages, suggestions |-> <<>>, seen |-> {}]

\* the extracted suggestions appended whether their name was seen or not
RECURSIVE addUnseen_KeepsRepeats(_, _, _)
addUnseen_KeepsRepeats(task, extracted, i) ==
  IF i > Len(extracted) THEN task
  ELSE Bind([task EXCEPT !.suggestions = Append(@, extracted[i]),
                         !.seen = @ \cup {extracted[i].name}],
            LAMBDA next : addUnseen_KeepsRepeats(next, extracted, i + 1))

\* the extracted suggestions from the i-th on are appended unless their name
\* was seen
RECURSIVE addUnseen(_, _, _)
addUnseen(task, extracted, i) ==
  IF i > Len(extracted) THEN task
  ELSE Bind(IF extracted[i].name \in task.seen THEN task
            ELSE [task EXCEPT !.suggestions = Append(@, extracted[i]),
                              !.seen = @ \cup {extracted[i].name}],
            LAMBDA next : addUnseen(next, extracted, i + 1))

\* the task after the fetch of its next page came back
taskStep(task, fetched) ==
  LET page == Head(task.pending) IN
  IF fetched.ok
    THEN Bind(extractSuggestionsFromJson(fetched.doc, SourceTag[page.path]), LAMBDA extracted :
           [addUnseen(task, extracted, 1) EXCEPT !.pending = Tail(@)])
  ELSE IF page.fatal THEN [task EXCEPT !.pending = <<>>]
  ELSE [task EXCEPT !.pending = Tail(@)]

\* Array.prototype.slice(0, limit)
slice(q, limit) == SubSeq(q, 1, IF Len(q) < limit THEN Len(q) ELSE limit)

\* x put behind the elements of the sorted list that rank no higher
sortedInsert(sorted, x) ==
  LET k == Cardinality({i \in 1..Len(sorted) : sorted[i].rank <= x.rank})
  IN  SubSeq(sorted, 1, k) \o <<x>> \o SubSeq(sorted, k + 1, Len(sorted))

\* suggestions.sort((a, b) => a.rank - b.rank) on the first n elements: the
\* sort is stable
RECURSIVE sortByRank(_, _)
sortByRank(q, n) ==
  IF n = 0 THEN <<>>
  ELSE Bind(sortByRank(q, n - 1), LAMBDA sorted : sortedInsert(sorted, q[n]))

SUGGESTION_LIMIT == 50

\* what the two calls return once their pages are through
topCardsOf(task) == slice(task.suggestions, SUGGESTION_LIMIT)
topLandsOf(task) ==
  Bind(task.suggestions, LAMBDA q : slice(sortByRank(q, Len(q)), SUGGESTION_LIMIT))

(* --------------------------- deckBuilder.ts --------------------------- *)
COLOR_TO_BASIC_LAND ==
  ("W" :> "Plains") @@ ("U" :> "Island") @@ ("B" :> "Swamp") @@ ("R" :> "Mountain") @@
  ("G" :> "Forest")

DEFAULT_LANDS_MIN == 35
DEFAULT_LANDS_MAX == 38
DEFAULT_MAX_GAME_CHANGERS == 3

BuilderNote(kind) == [kind |-> kind]
BuiltCardEntry(name, quantity, roles) == [name |-> name, quantity |-> quantity, roles |-> roles]

\* Math.round(n / 2) for n >= 0
roundHalf(n) == (n + 1) \div 2

\* step 5: one entry per seed card, with its roles if the card is known
seedEntries(cards, seedCards) ==
  IF IsSome(seedCards)
    THEN [i \in 1..Len(ValueOf(seedCards)) |->
            LET seedCard == getCardByName(cards, ValueOf(seedCards)[i])
            IN  BuiltCardEntry(ValueOf(seedCards)[i], 1,
                               IF seedCard.found THEN Some(classifyCardRoles(seedCard)) ELSE None)]
  ELSE <<>>

seedNotes(seedCards) ==
  IF IsSome(seedCards) /\ Len(ValueOf(seedCards)) > 0
    THEN <<[kind |-> "seeds", count |-> Len(ValueOf(seedCards))]>>
  ELSE <<>>

\* the basic land names of the identity's colours
basicLandTypesOf(colorIdentity) ==
  LET mapped == SelectSeq(colorIdentity, LAMBDA c : c \in DOMAIN COLOR_TO_BASIC_LAND)
  IN  [i \in 1..Len(mapped) |-> COLOR_TO_BASIC_LAND[mapped[i]]]

\* the remainder of the division left out
landEntries_DropsRemainder(colorIdentity, landsToAdd) ==
  LET basicLandTypes == basicLandTypesOf(colorIdentity) IN
  IF Len(colorIdentity) = 0 \/ Len(basicLandTypes) = 0
    THEN <<BuiltCardEntry("Wastes", landsToAdd, Some(<<"land">>))>>
  ELSE [index \in 1..Len(basicLandTypes) |->
          BuiltCardEntry(basicLandTypes[index], landsToAdd \div Len(basicLandTypes),
                         Some(<<"land">>))]

\* the remainder given to the last colours instead of the first
landEntries_RemainderLast(colorIdentity, landsToAdd) ==
  LET basicLandTypes == basicLandTypesOf(colorIdentity) IN
  IF Len(colorIdentity) = 0 \/ Len(basicLandTypes) = 0
    THEN <<BuiltCardEntry("Wastes", landsToAdd, Some(<<"land">>))>>
  ELSE [index \in 1..Len(basicLandTypes) |->
          BuiltCardEntry(basicLandTypes[index],
                         (landsToAdd \div Len(basicLandTypes))
                           + (IF Len(basicLandTypes) - index < landsToAdd % Len(basicLandTypes)
                                THEN 1 ELSE 0),
                         Some(<<"land">>))]

\* step 6: the basic lands
landEntries(colorIdentity, landsToAdd) ==
  LET basicLandTypes == basicLandTypesOf(colorIdentity) IN
  IF Len(colorIdentity) = 0 \/ Len(basicLandTypes) = 0
    THEN <<BuiltCardEntry("Wastes", landsToAdd, Some(<<"land">>))>>
  ELSE [index \in 1..Len(basicLandTypes) |->
          BuiltCardEntry(basicLandTypes[index],
                         (landsToAdd \div Len(basicLandTypes))
                           + (IF index - 1 < landsToAdd % Len(basicLandTypes) THEN 1 ELSE 0),
                         Some(<<"land">>))]

landNotes(colorIdentity, landsToAdd) ==
  IF Len(colorIdentity) = 0 THEN <<[kind |-> "colorless_lands", lands |-> landsToAdd]>>
  ELSE IF Len(basicLandTypesOf(colorIdentity)) = 0 THEN <<BuilderNote("unmapped_colors")>>
  ELSE <<[kind |-> "distributing", lands |-> landsToAdd,
          colors |-> Len(basicLandTypesOf(colorIdentity))]>>

totalOf(builtCards) == SumSeq([i \in 1..Len(builtCards) |-> builtCards[i].quantity])

\* step 7: the notes on the size of the skeleton
skeletonSizeNotes(totalCards) ==
  IF totalCards < COMMANDER_DECK_SIZE
    THEN <<[kind |-> "skeleton", total |-> totalCards, missing |-> COMMANDER_DECK_SIZE - totalCards],
           BuilderNote("land_shell_hint")>>
  ELSE IF totalCards > COMMANDER_DECK_SIZE
    THEN <<[kind |-> "exceeds", total |-> totalCards, excess |-> totalCards - COMMANDER_DECK_SIZE]>>
  ELSE <<[kind |-> "size_ok", total |-> totalCards]>>

\* step 9: one line `1 ${entry.name}` per copy
RECURSIVE deckTextOf(_, _)
deckTextOf(builtCards, n) ==
  IF n = 0 THEN <<>>
  ELSE Bind(deckTextOf(builtCards, n - 1), LAMBDA lines :
         lines \o [j \in 1..builtCards[n].quantity |-> EntryLine(1, builtCards[n].name)])

\* the failure of loadBracketRules left without a note
bracketRulesNotes_Silent(r, bracketId) == <<>>

\* step 2: the catch around loadBracketRules pushes a warning
bracketRulesNotes(r, bracketId) ==
  IF r.threw THEN <<[kind |-> "bracket_rules_warning", bracket |-> bracketId]>> ELSE <<>>

\* steps 3 to 9 of buildDeckFromCommander: the skeleton and its analysis.
\* The outcome is an exception, or the locals the function goes on with.
skeletonOf(p, input, commanderCard, templateId, bracketId, template, r) ==
  LET colorIdentity == commanderCard.color_identity
      landsCategory == findByName(template.categories, "lands")
      landsMin == IF IsSome(landsCategory) /\ IsSome(ValueOf(landsCategory).min)
                    THEN ValueOf(ValueOf(landsCategory).min) ELSE DEFAULT_LANDS_MIN
      landsMax == IF IsSome(landsCategory) /\ IsSome(ValueOf(landsCategory).max)
                    THEN ValueOf(ValueOf(landsCategory).max) ELSE DEFAULT_LANDS_MAX
      targetLands == roundHalf(landsMin + landsMax)
      shouldFetchEdhrec == input.useEdhrec \/ input.useEdhrecAutofill
  IN
  Bind(seedEntries(ValueOf(p.cachedOracleCards), input.seedCards)
         \o landEntries(colorIdentity, targetLands),
       LAMBDA builtCards :
  Bind(deckTextOf(builtCards, Len(builtCards)), LAMBDA deckText :
  Bind(analyzeDeckBasic(p, [deckText |-> deckText, templateId |-> Some(templateId),
                            banlistId |-> input.banlistId],
                        parseDeckText(deckText)),
       LAMBDA a :
    IF a.threw THEN Thrown(a.proc, a.error)
    ELSE
      [threw |-> FALSE,
       proc |-> a.proc,
       frame |->
         [input |-> input,
          commanderCard |-> commanderCard,
          colorIdentity |-> colorIdentity,
          templateId |-> templateId,
          bracketId |-> bracketId,
          template |-> template,
          bracketRules |-> IF r.threw THEN None ELSE r.rules,
          bracketLabel |-> IF r.threw THEN None ELSE Some(ValueOf(r.rules).label),
          builtCards |-> builtCards,
          builderNotes |->
            <<[kind |-> "commander", name |-> commanderCard.name, colors |-> colorIdentity]>>
            \o bracketRulesNotes(r, bracketId)
            \o <<[kind |-> "template_lands", template |-> templateId, min |-> landsMin,
                  max |-> landsMax, target |-> targetLands]>>
            \o seedNotes(input.seedCards)
            \o landNotes(colorIdentity, targetLands)
            \o skeletonSizeNotes(totalOf(builtCards))
            \o (IF shouldFetchEdhrec THEN <<BuilderNote("fetching")>> ELSE <<>>),
          analysis |-> a.value.analysis]])))

\* steps 1 and 2, then the skeleton
startBuild(p, input) ==
  Bind(loadOracleCards(p.cachedOracleCards, p.files), LAMBDA o :
    IF o.threw THEN Thrown(p, "oracle")
    ELSE
      Bind(getCardByName(ValueOf(o.cards), input.commanderName), LAMBDA commanderCard :
        IF ~commanderCard.found
          THEN Thrown([p EXCEPT !.cachedOracleCards = o.cache], "commander")
        ELSE
          LET templateId == IF Truthy(input.templateId) THEN ValueOf(input.templateId)
                            ELSE "bracket3"
              bracketId == IF Truthy(input.bracketId) THEN ValueOf(input.bracketId)
                           ELSE "bracket3"
          IN
          Bind(loadDeckTemplate(p.templateCache, p.files, Some(templateId)), LAMBDA t :
            IF t.threw
              THEN Thrown([p EXCEPT !.cachedOracleCards = o.cache], "template")
            ELSE
              Bind(loadBracketRules(p.bracketRulesCache, p.files, bracketId), LAMBDA r :
                skeletonOf(Process(p.files, t.cache, r.cache, p.cardListsCache, o.cache),
                           input, commanderCard, templateId, bracketId,
                           ValueOf(t.template), r)))))

\* the sources named in the EDHREC context
sourcesUsedOf(colors) ==
  IF Len(colors) = 0 THEN <<"top/colorless.json", "lands/colorless.json">>
  ELSE IF Len(colors) = 1
    THEN IF colors[1] \in DOMAIN topColorMap
           THEN <<TopPath[topColorMap[colors[1]]], LandsPath[topColorMap[colors[1]]]>>
         ELSE <<"lands/mono-colorless.json">>
  ELSE <<"top/multicolor.json">>
       \o LET mapped == SelectSeq(colors, LAMBDA c : c \in DOMAIN topColorMap)
          IN  [i \in 1..Len(mapped) |-> TopPath[topColorMap[mapped[i]]]]
       \o <<"lands/[color-combination].json">>

\* the loop over the categories taking card draw first
priorityOrder_DrawFirst == <<"card_draw", "ramp", "target_removal", "board_wipes">>

priorityOrder == <<"ramp", "card_draw", "target_removal", "board_wipes">>

\* the extra-turn cards of the bracket left in the running
trySuggestion_AllowsExtraTurns(st, suggestion, categoryName, ctx) ==
  IF st.remaining <= 0 THEN st
  ELSE IF LowerCaseOf[suggestion.name] \in st.cardsInDeck THEN st
  ELSE
    Bind(getCardByName(ctx.cards, suggestion.name), LAMBDA found :
      IF ~found.found THEN st
      ELSE IF \E c \in Range(found.color_identity) : c \notin Range(ctx.colorIdentity) THEN st
      ELSE IF /\ isGameChanger(ctx.cardListsCache, ctx.files, suggestion.name, ctx.bracketId)
              /\ st.gameChangerCount >= ctx.maxGameChangers THEN st
      ELSE IF isMassLandDenial(ctx.cardListsCache, ctx.files, suggestion.name, ctx.bracketId) THEN st
      ELSE
        Bind(classifyCardRoles(found), LAMBDA cardRoles :
          IF categoryName \in cardRolesToCategories(cardRoles)
            THEN [st EXCEPT
                    !.builtCards = Append(@, BuiltCardEntry(found.name, 1, Some(cardRoles))),
                    !.cardsInDeck = @ \cup {LowerCaseOf[found.name]},
                    !.remaining = @ - 1,
                    !.autofillCounts[categoryName] = @ + 1,
                    !.gameChangerCount =
                      IF isGameChanger(ctx.cardListsCache, ctx.files, found.name, ctx.bracketId)
                        THEN @ + 1 ELSE @]
          ELSE st))

\* the added card put in front of the deck
trySuggestion_Prepends(st, suggestion, categoryName, ctx) ==
  IF st.remaining <= 0 THEN st
  ELSE IF LowerCaseOf[suggestion.name] \in st.cardsInDeck THEN st
  ELSE
    Bind(getCardByName(ctx.cards, suggestion.name), LAMBDA found :
      IF ~found.found THEN st
      ELSE IF \E c \in Range(found.color_identity) : c \notin Range(ctx.colorIdentity) THEN st
      ELSE IF isGameChanger(ctx.cardListsCache, ctx.files, suggestion.name, ctx.bracketId)
              /\ st.gameChangerCount >= ctx.maxGameChangers THEN st
      ELSE IF isMassLandDenial(ctx.cardListsCache, ctx.files, suggestion.name, ctx.bracketId) THEN st
      ELSE IF isExtraTurnCard(ctx.cardListsCache, ctx.files, suggestion.name, ctx.bracketId) THEN st
      ELSE
        Bind(classifyCardRoles(found), LAMBDA cardRoles :
          IF categoryName \in cardRolesToCategories(cardRoles)
            THEN [st EXCEPT
                    !.builtCards = <<BuiltCardEntry(found.name, 1, Some(cardRoles))>> \o @,
                    !.cardsInDeck = @ \cup {LowerCaseOf[found.name]},
                    !.remaining = @ - 1,
                    !.autofillCounts[categoryName] = @ + 1,
                    !.gameChangerCount =
                      IF isGameChanger(ctx.cardListsCache, ctx.files, found.name, ctx.bracketId)
                        THEN @ + 1 ELSE @]
          ELSE st))

\* Game Changers added whatever the running count
trySuggestion_NoGameChangerLimit(st, suggestion, categoryName, ctx) ==
  IF st.remaining <= 0 THEN st
  ELSE IF LowerCaseOf[suggestion.name] \in st.cardsInDeck THEN st
  ELSE
    Bind(getCardByName(ctx.cards, suggestion.name), LAMBDA found :
      IF ~found.found THEN st
      ELSE IF \E c \in Range(found.color_identity) : c \notin Range(ctx.colorIdentity) THEN st
      ELSE IF isMassLandDenial(ctx.cardListsCache, ctx.files, suggestion.name, ctx.bracketId) THEN st
      ELSE IF isExtraTurnCard(ctx.cardListsCache, ctx.files, suggestion.name, ctx.bracketId) THEN st
      ELSE
        Bind(classifyCardRoles(found), LAMBDA cardRoles :
          IF categoryName \in cardRolesToCategories(cardRoles)
            THEN [st EXCEPT
                    !.builtCards = Append(@, BuiltCardEntry(found.name, 1, Some(cardRoles))),
                    !.cardsInDeck = @ \cup {LowerCaseOf[found.name]},
                    !.remaining = @ - 1,
                    !.autofillCounts[categoryName] = @ + 1,
                    !.gameChangerCount =
                      IF isGameChanger(ctx.cardListsCache, ctx.files, found.name, ctx.bracketId)
                        THEN @ + 1 ELSE @]
          ELSE st))

\* a suggested card added as two copies
trySuggestion_AddsTwoCopies(st, suggestion, categoryName, ctx) ==
  IF st.remaining <= 0 THEN st
  ELSE IF LowerCaseOf[suggestion.name] \in st.cardsInDeck THEN st
  ELSE
    Bind(getCardByName(ctx.cards, suggestion.name), LAMBDA found :
      IF ~found.found THEN st
      ELSE IF \E c \in Range(found.color_identity) : c \notin Range(ctx.colorIdentity) THEN st
      ELSE IF /\ isGameChanger(ctx.cardListsCache, ctx.files, suggestion.name, ctx.bracketId)
              /\ st.gameChangerCount >= ctx.maxGameChangers THEN st
      ELSE IF isMassLandDenial(ctx.cardListsCache, ctx.files, suggestion.name, ctx.bracketId) THEN st
      ELSE IF isExtraTurnCard(ctx.cardListsCache, ctx.files, suggestion.name, ctx.bracketId) THEN st
      ELSE
        Bind(classifyCardRoles(found), LAMBDA cardRoles :
          IF categoryName \in cardRolesToCategories(cardRoles)
            THEN [st EXCEPT
                    !.builtCards = Append(@, BuiltCardEntry(found.name, 2, Some(cardRoles))),
                    !.cardsInDeck = @ \cup {LowerCaseOf[found.name]},
                    !.remaining = @ - 1,
                    !.autofillCounts[categoryName] = @ + 1,
                    !.gameChangerCount =
                      IF isGameChanger(ctx.cardListsCache, ctx.files, found.name, ctx.bracketId)
                        THEN @ + 1 ELSE @]
          ELSE st))

\* the body of the loop over the suggestions, for one suggestion: the card
\* is added when it is new to the deck, known, within the commander's
\* colours, allowed by the bracket and of the category wanted
trySuggestion(st, suggestion, categoryName, ctx) ==
  IF st.remaining <= 0 THEN st
  ELSE IF LowerCaseOf[suggestion.name] \in st.cardsInDeck THEN st
  ELSE
    Bind(getCardByName(ctx.cards, suggestion.name), LAMBDA found :
      IF ~found.found THEN st
      ELSE IF \E c \in Range(found.color_identity) : c \notin Range(ctx.colorIdentity) THEN st
      ELSE IF /\ isGameChanger(ctx.cardListsCache, ctx.files, suggestion.name, ctx.bracketId)
              /\ st.gameChangerCount >= ctx.maxGameChangers THEN st
      ELSE IF isMassLandDenial(ctx.cardListsCache, ctx.files, suggestion.name, ctx.bracketId) THEN st
      ELSE IF isExtraTurnCard(ctx.cardListsCache, ctx.files, suggestion.name, ctx.bracketId) THEN st
      ELSE
        Bind(classifyCardRoles(found), LAMBDA cardRoles :
          IF categoryName \in cardRolesToCategories(cardRoles)
            THEN [st EXCEPT
                    !.builtCards = Append(@, BuiltCardEntry(found.name, 1, Some(cardRoles))),
                    !.cardsInDeck = @ \cup {LowerCaseOf[found.name]},
                    !.remaining = @ - 1,
                    !.autofillCounts[categoryName] = @ + 1,
                    !.gameChangerCount =
                      IF isGameChanger(ctx.cardListsCache, ctx.files, found.name, ctx.bracketId)
                        THEN @ + 1 ELSE @]
          ELSE st))

\* the loop going on to the end of the list whatever the deficit left
RECURSIVE fillFrom_NoBreak(_, _, _, _)
fillFrom_NoBreak(st, i, categoryName, ctx) ==
  IF i > Len(ctx.suggestions) THEN st
  ELSE Bind(trySuggestion(st, ctx.suggestions[i], categoryName, ctx), LAMBDA next :
         fillFrom_NoBreak([next EXCEPT !.examined =
                             Append(@, [category |-> categoryName,
                                        name |-> ctx.suggestions[i].name,
                                        added |-> Len(next.builtCards) > Len(st.builtCards)])],
                          i + 1, categoryName, ctx))

\* the loop over the suggestions, from the i-th on; it ends at the break on
\* remaining <= 0. Every suggestion the loop body is run for is written to
\* st.examined, with the category it is examined for and whether it was added.
RECURSIVE fillFrom(_, _, _, _)
fillFrom(st, i, categoryName, ctx) ==
  IF i > Len(ctx.suggestions) \/ st.remaining <= 0 THEN st
  ELSE Bind(trySuggestion(st, ctx.suggestions[i], categoryName, ctx), LAMBDA next :
         fillFrom([next EXCEPT !.examined =
                     Append(@, [category |-> categoryName, name |-> ctx.suggestions[i].name,
                                added |-> Len(next.builtCards) > Len(st.builtCards)])],
                  i + 1, categoryName, ctx))

\* one round of the loop over priorityOrder
fillCategory(st, categoryName, ctx) ==
  Bind(findByName(ctx.deficits, categoryName), LAMBDA deficit :
    IF ~IsSome(deficit) \/ ValueOf(deficit).deficit <= 0 THEN st
    ELSE
      Bind(fillFrom([st EXCEPT !.remaining = ValueOf(deficit).deficit,
                               !.notes = Append(@, [kind |-> "deficit", name |-> categoryName,
                                                    deficit |-> ValueOf(deficit).deficit])],
                    1, categoryName, ctx),
           LAMBDA filled :
        [filled EXCEPT
           !.notes = Append(@, IF filled.remaining > 0
                                 THEN [kind |-> "unfilled", name |-> categoryName,
                                       remaining |-> filled.remaining]
                               ELSE [kind |-> "filled", name |-> categoryName,
                                     count |-> filled.autofillCounts[categoryName]])]))

RECURSIVE fillCategories(_, _, _)
fillCategories(st, i, ctx) ==
  IF i > Len(priorityOrder) THEN st
  ELSE Bind(fillCategory(st, priorityOrder[i], ctx), LAMBDA next :
         fillCategories(next, i + 1, ctx))

\* a deck past 99 cards noted as being of the right size
filledSizeNote_NoExcess(totalCards) ==
  IF totalCards < COMMANDER_DECK_SIZE
    THEN [kind |-> "cards_needed", total |-> totalCards, missing |-> COMMANDER_DECK_SIZE - totalCards]
  ELSE [kind |-> "size_ok", total |-> totalCards]

\* the note on the size of the deck after the autofill
filledSizeNote(totalCards) ==
  IF totalCards < COMMANDER_DECK_SIZE
    THEN [kind |-> "cards_needed", total |-> totalCards, missing |-> COMMANDER_DECK_SIZE - totalCards]
  ELSE IF totalCards > COMMANDER_DECK_SIZE
    THEN [kind |-> "exceeds", total |-> totalCards, excess |-> totalCards - COMMANDER_DECK_SIZE]
  ELSE [kind |-> "size_ok", total |-> totalCards]

\* step 9.6: the autofill and the second analysis. Gives the caches, the
\* cards, the analysis and the notes afterwards.
autofill(p, frame, suggestions) ==
  LET lists == loadBracketCardLists(p.cardListsCache, p.files, frame.bracketId)
      listed == {i \in 1..Len(frame.builtCards) :
                   isGameChanger(p.cardListsCache, p.files, frame.builtCards[i].name,
                                 frame.bracketId)}
      ctx == [cards |-> ValueOf(p.cachedOracleCards),
              colorIdentity |-> frame.colorIdentity,
              bracketId |-> frame.bracketId,
              files |-> p.files,
              cardListsCache |-> lists.cache,
              maxGameChangers |-> IF IsSome(frame.bracketRules)
                                    THEN ValueOf(frame.bracketRules).maxGameChangers
                                  ELSE DEFAULT_MAX_GAME_CHANGERS,
              suggestions |-> suggestions,
              deficits |-> computeCategoryDeficits(frame.analysis, frame.template, priorityOrder)]
      start == [builtCards |-> frame.builtCards,
                cardsInDeck |-> {LowerCaseOf[frame.builtCards[i].name] :
                                   i \in 1..Len(frame.builtCards)},
                gameChangerCount |->
                  SumSeq([i \in 1..Len(frame.builtCards) |->
                            IF i \in listed THEN frame.builtCards[i].quantity ELSE 0]),
                remaining |-> 0,
                examined |-> <<>>,
                autofillCounts |-> [c \in Range(priorityOrder) |-> 0],
                notes |-> frame.builderNotes \o <<BuilderNote("separator"),
                                                  BuilderNote("autofill_enabled")>>]
  IN
  Bind(ctx, LAMBDA c :
  Bind(fillCategories(start, 1, c), LAMBDA st :
  Bind(deckTextOf(st.builtCards, Len(st.builtCards)), LAMBDA deckText :
  Bind(analyzeDeckBasic([p EXCEPT !.cardListsCache = lists.cache],
                        [deckText |-> deckText, templateId |-> Some(frame.templateId),
                         banlistId |-> frame.input.banlistId],
                        parseDeckText(deckText)),
       LAMBDA a :
    IF a.threw THEN Thrown(a.proc, a.error)
    ELSE
      [threw |-> FALSE,
       proc |-> a.proc,
       builtCards |-> st.builtCards,
       examined |-> st.examined,
       analysis |-> a.value.analysis,
       builderNotes |->
         st.notes
         \o <<[kind |-> "autofill_complete",
               added |-> SumSeq([i \in 1..Len(priorityOrder) |-> st.autofillCounts[priorityOrder[i]]]),
               counts |-> st.autofillCounts],
              BuilderNote("separator"),
              filledSizeNote(totalOf(st.builtCards))>>]))))

\* step 10: the BuildDeckResult
resultOf(frame, builtCards, analysis, builderNotes, edhrecContext) ==
  [input |-> frame.input,
   templateId |-> frame.templateId,
   bracketId |-> frame.bracketId,
   bracketLabel |-> frame.bracketLabel,
   deck |-> [commanderName |-> frame.commanderCard.name, cards |-> builtCards],
   analysis |-> analysis,
   notes |-> builderNotes
             \o <<BuilderNote("separator"), BuilderNote("builder_info"),
                  [kind |-> "skeleton_of", commander |-> frame.commanderCard.name],
                  BuilderNote("not_fully_filled"), BuilderNote("use_edhrec"),
                  BuilderNote("separator"), BuilderNote("analysis_notes")>>
             \o analysis.notes,
   edhrecContext |-> edhrecContext]

\* the return of buildDeckFromCommander, with the suggestions its autofill
\* examined on the way
Finished(proc, value, examined) ==
  [threw |-> FALSE, value |-> value, proc |-> proc, examined |-> examined]

\* steps 9.5 to 10, once the two EDHREC calls (if any were made) are back
\* (getTopCardsForColorIdentity and getTopLandsForColorIdentity catch every
\* fetch error themselves and return the suggestions they have, so the
\* Promise.all never rejects and the catch of step 9.5 is never entered)
finishBuild(p, frame, fetched) ==
  LET suggestions == IF IsSome(fetched)
                       THEN ValueOf(fetched).topCards \o ValueOf(fetched).topLands
                     ELSE <<>>
      edhrecContext ==
        IF IsSome(fetched)
          THEN Some([sourcesUsed |-> sourcesUsedOf(frame.colorIdentity),
                     suggestions |-> suggestions])
        ELSE None
      builderNotes ==
        frame.builderNotes
        \o (IF IsSome(fetched)
              THEN <<[kind |-> "edhrec_fetched", topCards |-> Len(ValueOf(fetched).topCards),
                      topLands |-> Len(ValueOf(fetched).topLands), total |-> Len(suggestions)]>>
            ELSE <<>>)
  IN
  IF frame.input.useEdhrecAutofill /\ IsSome(edhrecContext) /\ Len(suggestions) > 0
    THEN Bind(autofill(p, [frame EXCEPT !.builderNotes = builderNotes], suggestions),
              LAMBDA filled :
           IF filled.threw THEN Thrown(filled.proc, filled.error)
           ELSE Finished(filled.proc,
                         resultOf(frame, filled.builtCards, filled.analysis,
                                  filled.builderNotes, edhrecContext),
                         filled.examined))
  ELSE Finished(p, resultOf(frame, frame.builtCards, frame.analysis, builderNotes,
                            edhrecContext),
                <<>>)

(* ------------------------------ state --------------------------------- *)
VARIABLES
  card,               \* classifier: the argument of classifyCardRoles
  roles,              \* classifier: its return value (None before the call)
  files,              \* the data directory
  templateCache,      \* templates.ts: templateCache
  bracketRulesCache,  \* brackets.ts: bracketRulesCache
  cardListsCache,     \* bracketCards.ts: cardListsCache
  cachedOracleCards,  \* scryfall.ts: cachedOracleCards
  request,            \* the input of the analyze_deck call
  response,           \* what the call returned or threw (None before it)
  deficitCall,        \* arguments and result of computeCategoryDeficits
  repeatResponse,     \* what a second analyze_deck call on the same input gave
  buildRequest,       \* the input of the build_deck_from_commander call
  network,            \* the EDHREC pages that can be fetched
  edhrecCache,        \* edhrec.ts: edhrecCache
  buildFrame,         \* the locals of buildDeckFromCommander at its await
  topCardsTask,       \* the running getTopCardsForColorIdentity call
  topLandsTask,       \* the running getTopLandsForColorIdentity call
  buildResponse,      \* what the build returned or threw (None before)
  autofillLog         \* history: the suggestions the autofill examined, in order

classifierVars == <<card, roles>>
processVars == <<files, templateCache, bracketRulesCache, cardListsCache, cachedOracleCards>>
analyzeVars == <<request, response, deficitCall, repeatResponse>>
buildVars == <<buildRequest, network, edhrecCache, buildFrame, topCardsTask, topLandsTask,
               buildResponse, autofillLog>>
vars == <<classifierVars, processVars, analyzeVars, buildVars>>

\* the process as the operators take it
proc == Process(files, templateCache, bracketRulesCache, cardListsCache, cachedOracleCards)

SetProcess(p) ==
  /\ files' = p.files
  /\ templateCache' = p.templateCache
  /\ bracketRulesCache' = p.bracketRulesCache
  /\ cardListsCache' = p.cardListsCache
  /\ cachedOracleCards' = p.cachedOracleCards

\* a freshly started process: nothing cached
FreshProcess(fs) ==
  /\ files = fs
  /\ templateCache = EmptyMap
  /\ bracketRulesCache = None
  /\ cardListsCache = EmptyMap
  /\ cachedOracleCards = None

ClassifierIdle == card = NotFound /\ roles = None
AnalyzeIdle ==
  request = None /\ response = None /\ deficitCall = None /\ repeatResponse = None
BuildIdle ==
  /\ buildRequest = None
  /\ network = {}
  /\ edhrecCache = EmptyMap
  /\ buildFrame = None
  /\ topCardsTask = None
  /\ topLandsTask = None
  /\ buildResponse = None
  /\ autofillLog = <<>>

(* ---------------- specification of the role classifier ---------------- *)
\* the cards the classifier is applied to: not found, or any type line and
\* oracle text over the vocabulary (an absent type_line / oracle_text reads
\* as the empty text)
ClassifierInputs ==
  {NotFound} \cup
  {[found |-> TRUE, type_line |-> t, oracle_text |-> o] :
     t \in SubsetsUpTo(TypeWords, MaxTypeWords),
     o \in SubsetsUpTo(OracleSentences, MaxSentences)}

InitRoles ==
  /\ card \in ClassifierInputs
  /\ roles = None
  /\ FreshProcess(AllPresent)
  /\ AnalyzeIdle
  /\ BuildIdle

Classify ==
  /\ roles = None
  /\ roles' = Some(classifyCardRoles(card))
  /\ UNCHANGED <<card, processVars, analyzeVars, buildVars>>

NextRoles == Classify

SpecRoles == InitRoles /\ [][NextRoles]_vars

(* ------------------- specification of analyze_deck -------------------- *)
\* the lines deck texts are made of, in a fixed order
DeckLines ==
  <<BlankLine, NoiseLine,
    EntryLine(1, "Sol Ring"), EntryLine(1, "SOL RING"), EntryLine(1, "Island"),
    EntryLine(1, "Swords to Plowshares"), EntryLine(1, "Repulse"),
    EntryLine(1, "Wrath of God"), EntryLine(1, "Rhystic Study"),
    EntryLine(1, "Demonic Tutor"), EntryLine(1, "Time Warp"), EntryLine(1, "Armageddon"),
    EntryLine(1, "Counterspell"), EntryLine(1, "Thassa's Oracle"),
    EntryLine(1, "Mystery Card"),
    EntryLine(2, "Sol Ring"), EntryLine(2, "Island"), EntryLine(2, "Rhystic Study"),
    EntryLine(2, "Demonic Tutor"), EntryLine(2, "Time Warp"), EntryLine(2, "Repulse"),
    EntryLine(97, "Island")>>

\* the non-decreasing index sequences of length at most k over 1..n: one
\* deck text for every multiset of lines
RECURSIVE SortedIndexSeqs(_, _)
SortedIndexSeqs(n, k) ==
  IF k = 0 THEN {<<>>}
  ELSE LET shorter == SortedIndexSeqs(n, k - 1)
           extended == {Append(s, i) : s \in {t \in shorter : Len(t) = k - 1}, i \in 1..n}
       IN  shorter \cup {q \in extended : \A j \in 1..(Len(q) - 1) : q[j] <= q[j + 1]}

DeckTexts ==
  {[j \in 1..Len(q) |-> DeckLines[q[j]]] : q \in SortedIndexSeqs(Len(DeckLines), MaxDeckLines)}

TemplateIdInputs == {None, Some("bracket3"), Some("default"), Some("custom")}

AnalyzeInputs ==
  {[deckText |-> text, templateId |-> id, banlistId |-> None] :
     text \in DeckTexts, id \in TemplateIdInputs}

\* the category names computeCategoryDeficits is asked about: the builder's
\* four, and one no template has
DeficitNames == <<"ramp", "card_draw", "target_removal", "board_wipes", "sideboard">>

InitAnalyze ==
  /\ ClassifierIdle
  /\ \E fs \in DataDirs : FreshProcess(fs)
  /\ request \in {Some(i) : i \in AnalyzeInputs}
  /\ response = None
  /\ deficitCall = None
  /\ repeatResponse = None
  /\ BuildIdle

\* the analyze_deck tool call: runAnalyzeDeck on the request
AnalyzeDeck ==
  /\ response = None
  /\ \E p \in {proc} :
       \E out \in {runAnalyzeDeck(p, ValueOf(request))} :
         /\ response' = Some(IF out.threw THEN [threw |-> TRUE, error |-> out.error]
                                  ELSE [threw |-> FALSE, value |-> out.value])
         /\ SetProcess(out.proc)
  /\ UNCHANGED <<classifierVars, request, deficitCall, repeatResponse, buildVars>>

\* computeCategoryDeficits on the returned analysis, against any template
CategoryDeficits ==
  /\ IsSome(response)
  /\ ~ValueOf(response).threw
  /\ deficitCall = None
  /\ \E template \in Templates :
       deficitCall' =
         Some([template |-> template, names |-> DeficitNames,
               deficits |-> computeCategoryDeficits(ValueOf(response).value.analysis,
                                                    template, DeficitNames)])
  /\ UNCHANGED <<classifierVars, processVars, request, response, repeatResponse, buildVars>>

NextAnalyze == AnalyzeDeck \/ CategoryDeficits

SpecAnalyze == InitAnalyze /\ [][NextAnalyze]_vars

(* ----------- specification of two analyze_deck calls in a row ---------- *)
\* the lines of the deck texts that are analysed twice
RepeatLines ==
  <<NoiseLine,
    EntryLine(1, "SOL RING"), EntryLine(1, "Island"), EntryLine(1, "Repulse"),
    EntryLine(1, "Rhystic Study"), EntryLine(2, "Demonic Tutor"), EntryLine(2, "Time Warp"),
    EntryLine(1, "Armageddon"), EntryLine(1, "Mystery Card")>>

RepeatInputs ==
  {[deckText |-> [j \in 1..Len(q) |-> RepeatLines[q[j]]], templateId |-> id,
    banlistId |-> None] :
     q \in SortedIndexSeqs(Len(RepeatLines), MaxDeckLines), id \in TemplateIdInputs}

InitRepeat ==
  /\ ClassifierIdle
  /\ \E fs \in DataDirs : FreshProcess(fs)
  /\ request \in {Some(i) : i \in RepeatInputs}
  /\ response = None
  /\ deficitCall = None
  /\ repeatResponse = None
  /\ BuildIdle

\* the same analyze_deck call made again in the same process: runAnalyzeDeck
\* on the same request, with the module-level caches the first call left
AnalyzeAgain ==
  /\ IsSome(response)
  /\ repeatResponse = None
  /\ \E p \in {proc} :
       \E out \in {runAnalyzeDeck(p, ValueOf(request))} :
         /\ repeatResponse' = Some(IF out.threw THEN [threw |-> TRUE, error |-> out.error]
                                        ELSE [threw |-> FALSE, value |-> out.value])
         /\ SetProcess(out.proc)
  /\ UNCHANGED <<classifierVars, request, response, deficitCall, buildVars>>

NextRepeat == AnalyzeDeck \/ AnalyzeAgain

SpecRepeat == InitRepeat /\ [][NextRepeat]_vars

(* --------------- specification of build_deck_from_commander ----------- *)
\* the build_deck_from_commander calls the model makes
BuildInputs ==
  {[commanderName |-> name, templateId |-> template, bracketId |-> bracket,
    banlistId |-> None, seedCards |-> seeds, useEdhrec |-> flags[1],
    useEdhrecAutofill |-> flags[2]] :
     name \in {"Sol Ring", "Thassa's Oracle", "Niv-Mizzet, Parun", "Tibor and Lumia",
              "Mystery Card"},
     template \in {None, Some("custom"), Some("nope")},
     bracket \in {None, Some("custom"), Some("nope")},
     seeds \in {None, Some(<<"Mystery Card", "Rhystic Study">>), Some(<<"", "Sol Ring">>)},
     flags \in {<<FALSE, FALSE>>, <<TRUE, FALSE>>, <<FALSE, TRUE>>}}

\* the data directories builds start from
BuildDataDirs ==
  {AllPresent,
   [AllPresent EXCEPT !.templates["bracket3"] = Broken],
   [AllPresent EXCEPT !.templates["custom"] = Missing, !.templates["default"] = Missing],
   [AllPresent EXCEPT !.rules = Missing],
   [AllPresent EXCEPT !.oracle = Missing],
   [AllPresent EXCEPT !.templates["custom"] = Present(TemplateLandHeavy)]}

\* which pages of json.edhrec.com can be fetched: all, none, or all but some
Networks ==
  {DOMAIN EdhrecPages, {},
   DOMAIN EdhrecPages \ {"top/multicolor.json", "top/blue.json", "lands/colorless.json"},
   DOMAIN EdhrecPages \ {"top/red.json", "lands/mono-blue.json", "top/colorless.json"}}

InitBuild ==
  /\ ClassifierIdle
  /\ AnalyzeIdle
  /\ \E fs \in BuildDataDirs : FreshProcess(fs)
  /\ buildRequest \in {Some(i) : i \in BuildInputs}
  /\ network \in Networks
  /\ edhrecCache = EmptyMap
  /\ buildFrame = None
  /\ topCardsTask = None
  /\ topLandsTask = None
  /\ buildResponse = None
  /\ autofillLog = <<>>

Respond(out) ==
  buildResponse' = Some(IF out.threw THEN [threw |-> TRUE, error |-> out.error]
                        ELSE [threw |-> FALSE, value |-> out.value])

\* the call of buildDeckFromCommander, up to its return, its exception or
\* the await of the two EDHREC calls
BuildStart ==
  /\ IsSome(buildRequest)
  /\ buildResponse = None
  /\ buildFrame = None
  /\ \E p \in {proc} :
       \E out \in {startBuild(p, ValueOf(buildRequest))} :
         IF out.threw
           THEN /\ Respond(out)
                /\ SetProcess(out.proc)
                /\ UNCHANGED <<buildFrame, topCardsTask, topLandsTask>>
         ELSE IF ValueOf(buildRequest).useEdhrec \/ ValueOf(buildRequest).useEdhrecAutofill
           THEN /\ buildFrame' = Some(out.frame)
                /\ topCardsTask' = Some(Task(topCardsPages(out.frame.colorIdentity)))
                /\ topLandsTask' = Some(Task(topLandsPages(out.frame.colorIdentity)))
                /\ SetProcess(out.proc)
                /\ UNCHANGED buildResponse
         ELSE \E fin \in {finishBuild(out.proc, out.frame, None)} :
                /\ Respond(fin)
                /\ SetProcess(fin.proc)
                /\ buildFrame' = Some(out.frame)
                /\ UNCHANGED <<topCardsTask, topLandsTask>>
  /\ UNCHANGED <<classifierVars, analyzeVars, buildRequest, network, edhrecCache, autofillLog>>

\* a fetch of getTopCardsForColorIdentity comes back
TopCardsFetched ==
  /\ IsSome(topCardsTask)
  /\ ValueOf(topCardsTask).pending # <<>>
  /\ \E f \in {fetchEdhrecJson(edhrecCache, network, Head(ValueOf(topCardsTask).pending).path)} :
       /\ topCardsTask' = Some(taskStep(ValueOf(topCardsTask), f.result))
       /\ edhrecCache' = f.cache
  /\ UNCHANGED <<classifierVars, processVars, analyzeVars, buildRequest, network, buildFrame,
                 topLandsTask, buildResponse, autofillLog>>

\* a fetch of getTopLandsForColorIdentity comes back
TopLandsFetched ==
  /\ IsSome(topLandsTask)
  /\ ValueOf(topLandsTask).pending # <<>>
  /\ \E f \in {fetchEdhrecJson(edhrecCache, network, Head(ValueOf(topLandsTask).pending).path)} :
       /\ topLandsTask' = Some(taskStep(ValueOf(topLandsTask), f.result))
       /\ edhrecCache' = f.cache
  /\ UNCHANGED <<classifierVars, processVars, analyzeVars, buildRequest, network, buildFrame,
                 topCardsTask, buildResponse, autofillLog>>

\* both EDHREC calls are back: buildDeckFromCommander runs to its end
BuildFinish ==
  /\ buildResponse = None
  /\ IsSome(buildFrame) /\ IsSome(topCardsTask) /\ IsSome(topLandsTask)
  /\ ValueOf(topCardsTask).pending = <<>>
  /\ ValueOf(topLandsTask).pending = <<>>
  /\ \E p \in {proc} :
       \E fin \in {finishBuild(p, ValueOf(buildFrame),
                               Some([topCards |-> topCardsOf(ValueOf(topCardsTask)),
                                     topLands |-> topLandsOf(ValueOf(topLandsTask))]))} :
         /\ Respond(fin)
         /\ SetProcess(fin.proc)
         /\ autofillLog' = IF fin.threw THEN <<>> ELSE fin.examined
  /\ UNCHANGED <<classifierVars, analyzeVars, buildRequest, network, edhrecCache, buildFrame,
                 topCardsTask, topLandsTask>>

NextBuild == BuildStart \/ TopCardsFetched \/ TopLandsFetched \/ BuildFinish

SpecBuild == InitBuild /\ [][NextBuild]_vars

(* -------- specification of the builds over the templates' lands ------- *)
\* the bounds a template's lands category gives (none, or a number)
LandsMins == {None, Some(0), Some(30), Some(36), Some(40)}
LandsMaxes == {None, Some(30), Some(38), Some(45)}

\* a deck-template-custom.json with the lands category of these bounds
LandsTemplate(min, max) ==
  [id |-> "custom",
   categories |-> <<Category("lands", min, max), Category("ramp", Some(1), Some(2))>>]

\* a deck-template-custom.json without a lands category
TemplateNoLands == [id |-> "custom", categories |-> <<Category("ramp", Some(1), Some(2))>>]

\* the data directories: the custom template with a lands category whose
\* bounds, where it gives both, are in order, or without one
LandsDataDirs ==
  {[AllPresent EXCEPT !.templates["custom"] = Present(LandsTemplate(bounds[1], bounds[2]))] :
     bounds \in {b \in LandsMins \X LandsMaxes :
                   (IsSome(b[1]) /\ IsSome(b[2])) => ValueOf(b[1]) <= ValueOf(b[2])}}
  \cup {[AllPresent EXCEPT !.templates["custom"] = Present(TemplateNoLands)]}

\* builds against the custom template
LandsInputs ==
  {[commanderName |-> name, templateId |-> Some("custom"), bracketId |-> None,
    banlistId |-> None, seedCards |-> seeds, useEdhrec |-> useEdhrec,
    useEdhrecAutofill |-> FALSE] :
     name \in {"Sol Ring", "Niv-Mizzet, Parun"},
     seeds \in {None, Some(<<"Sol Ring">>)},
     useEdhrec \in BOOLEAN}

InitLands ==
  /\ ClassifierIdle
  /\ AnalyzeIdle
  /\ \E fs \in LandsDataDirs : FreshProcess(fs)
  /\ buildRequest \in {Some(i) : i \in LandsInputs}
  /\ network = DOMAIN EdhrecPages
  /\ edhrecCache = EmptyMap
  /\ buildFrame = None
  /\ topCardsTask = None
  /\ topLandsTask = None
  /\ buildResponse = None
  /\ autofillLog = <<>>

SpecLands == InitLands /\ [][NextBuild]_vars

(* ============================== claims ================================ *)
\* the role rules by role name, as classifyCardRoles tests them
RuleMatches(role, c) ==
  LET t == toLowerCase(c.type_line)
      o == toLowerCase(c.oracle_text)
  IN  CASE role = "ramp" -> isRamp(t, o)
        [] role = "target_removal" -> isTargetRemoval(t, o)
        [] role = "board_wipe" -> isBoardWipe(t, o)
        [] role = "card_draw" -> isCardDraw(t, o)
        [] role = "protection" -> isProtection(t, o)
        [] role = "tutor" -> isTutor(t, o)
        [] role = "wincon" -> isWincon(t, o)

NonLandRoles ==
  {"ramp", "target_removal", "board_wipe", "card_draw", "protection", "tutor", "wincon"}

HasLandType(c) == c.found /\ \E w \in c.type_line : "land" \in PatternsIn[LowerCaseOf[w]]

\* C5: a card whose type line contains "land" (case-insensitively) is
\* classified as exactly <<land>>, whatever its oracle text, and a card
\* without "land" in its type line (or a card not found) never gets the
\* land role.
C5_LandIsExactlyLand ==
  IsSome(roles) =>
    /\ HasLandType(card) => ValueOf(roles) = <<"land">>
    /\ ~HasLandType(card) => "land" \notin Range(ValueOf(roles))

\* C5 witness: a land whose oracle text matches the ramp and card-draw rules
\* (an upper-case "Land" type word) has been classified.
C5_Witness ==
  /\ IsSome(roles)
  /\ card.found
  /\ "Land" \in card.type_line
  /\ "Artifact" \in card.type_line
  /\ card.oracle_text = {"{T}: Add {C}{C}.", "Draw a card."}

\* C6: classifyCardRoles returns a non-empty list without repetitions; a
\* not-found card gives exactly <<other>>; for a found non-land card each of
\* the seven non-land roles is present exactly when its own rule matches,
\* and other is present exactly when no rule matched, and then alone.
C6_RolesNonEmptyOtherAlone ==
  IsSome(roles) =>
    LET r == ValueOf(roles) IN
    /\ Len(r) >= 1
    /\ \A i, j \in 1..Len(r) : r[i] = r[j] => i = j
    /\ ~card.found => r = <<"other">>
    /\ (card.found /\ ~HasLandType(card)) =>
         /\ \A role \in NonLandRoles : role \in Range(r) <=> RuleMatches(role, card)
         /\ "other" \in Range(r) <=> \A role \in NonLandRoles : ~RuleMatches(role, card)
         /\ "other" \in Range(r) => r = <<"other">>
         /\ Range(r) \subseteq NonLandRoles \cup {"other"}

\* C6 witness: a found non-land card was given several roles at once.
C6_Witness ==
  /\ IsSome(roles)
  /\ card.found
  /\ ~HasLandType(card)
  /\ Len(ValueOf(roles)) >= 3
  /\ {"ramp", "wincon"} \subseteq Range(ValueOf(roles))

(* ----------------------- claims on analyze_deck ----------------------- *)
\* the call returned an analysis
Analyzed == IsSome(response) /\ ~ValueOf(response).threw
Analysis == ValueOf(response).value.analysis
Entries == ValueOf(response).value.parsedDeck.cards

\* the roles of every parsed entry, as sets
EntryRoles ==
  [k \in 1..Len(Entries) |->
     Range(classifyCardRoles(getCardByName(ValueOf(cachedOracleCards), Entries[k].name)))]

OtherOnly(roleSets) == {k \in DOMAIN roleSets : roleSets[k] = {"other"}}

\* the total quantity of the entries with index in S
QuantityOf(S) ==
  Bind(S, LAMBDA v :
    SumSeq([k \in 1..Len(Entries) |-> IF k \in v THEN Entries[k].quantity ELSE 0]))

\* the role -> category table as the claims state it
TablePairs ==
  {<<"land", "lands">>, <<"ramp", "ramp">>, <<"target_removal", "target_removal">>,
   <<"board_wipe", "board_wipes">>, <<"card_draw", "card_draw">>,
   <<"protection", "protection">>, <<"tutor", "tutor">>, <<"wincon", "wincon">>}

\* the table, with a role it does not list standing for the category of its
\* own name
PairsWithFallback == TablePairs \cup {<<"other", "other">>}

\* the entries with a role that `pairs` sends to category c
EntriesFor(pairs, c, roleSets) ==
  {k \in DOMAIN roleSets : \E r \in roleSets[k] : <<r, c>> \in pairs}

\* the analysis has one summary per category of the template it was made
\* against, in the template's order
SummariesFollowTemplate ==
  \E id \in DOMAIN templateCache :
    /\ Len(Analysis.categories) = Len(templateCache[id].categories)
    /\ \A i \in 1..Len(Analysis.categories) :
         Analysis.categories[i].name = templateCache[id].categories[i].name

C4_DefaultsToBracket3 ==
  (IsSome(response) /\ ~Truthy(ValueOf(request).templateId) /\ files = AllPresent) =>
    /\ Analyzed
    /\ "bracket3" \in DOMAIN templateCache
    /\ IsSome(bracketRulesCache)
    /\ Analysis.bracketId = Some("bracket3")

\* the categories of a list that carry a given name
Named(list, name) == {list[i] : i \in {j \in 1..Len(list) : list[j].name = name}}

\* C7: every deficit computeCategoryDeficits reports is max(0, min - current):
\* it is never negative, it is min - current when the template gives the
\* category a min above the current count, and it is 0 when current >= min,
\* when the template gives no min, and when the template lacks the name;
\* current is the analysis count of that name (0 if the analysis lacks it).
C7_DeficitIsClampedShortfall ==
  IsSome(deficitCall) =>
    LET call == ValueOf(deficitCall) IN
    /\ Len(call.deficits) = Len(call.names)
    /\ \A k \in 1..Len(call.names) :
         LET d == call.deficits[k]
             summaries == Named(Analysis.categories, call.names[k])
             configs == Named(call.template.categories, call.names[k])
         IN  /\ d.name = call.names[k]
             /\ d.deficit >= 0
             /\ summaries = {} => d.current = 0
             /\ \A sum \in summaries : d.current = sum.count
             /\ configs = {} => d.deficit = 0
             /\ \A cfg \in configs :
                  IF IsSome(cfg.min) /\ d.current < ValueOf(cfg.min)
                    THEN d.deficit = ValueOf(cfg.min) - d.current
                  ELSE d.deficit = 0

\* C7 witness: one call reported a positive deficit, a zero deficit for a
\* count above the min, a zero deficit for a category without a min that the
\* deck has cards of, and a zero deficit for a name the template lacks.
C7_Witness ==
  /\ IsSome(deficitCall)
  /\ LET call == ValueOf(deficitCall) IN
     /\ \E k \in 1..Len(call.deficits) : call.deficits[k].deficit > 0
     /\ \E k \in 1..Len(call.deficits) :
          /\ IsSome(call.deficits[k].min)
          /\ call.deficits[k].current > ValueOf(call.deficits[k].min)
          /\ call.deficits[k].deficit = 0
     /\ \E k \in 1..Len(call.deficits) :
          /\ Named(call.template.categories, call.names[k]) # {}
          /\ ~IsSome(call.deficits[k].min)
          /\ call.deficits[k].current > 0
     /\ \E k \in 1..Len(call.deficits) :
          Named(call.template.categories, call.names[k]) = {}

\* C8: in every category summary of an analysis the status is unknown
\* exactly when neither min nor max is set; otherwise it is below exactly
\* when min is set and count < min, above exactly when max is set, count >
\* max and the summary is not below, and within in the remaining cases.
C8_StatusFromBounds ==
  Analyzed =>
    \A i \in 1..Len(Analysis.categories) :
      LET c == Analysis.categories[i]
          isBelow == IsSome(c.min) /\ c.count < ValueOf(c.min)
          isAbove == IsSome(c.max) /\ c.count > ValueOf(c.max) /\ ~isBelow
      IN  /\ c.status \in {"unknown", "below", "above", "within"}
          /\ c.status = "unknown" <=> (~IsSome(c.min) /\ ~IsSome(c.max))
          /\ (IsSome(c.min) \/ IsSome(c.max)) =>
               /\ c.status = "below" <=> isBelow
               /\ c.status = "above" <=> isAbove
               /\ c.status = "within" <=> (~isBelow /\ ~isAbove)

\* C8 witness: one analysis holds an unknown, a below, an above and a within
\* summary, the above one in a category with only a max, and a summary that
\* is below although its count is over its max.
C8_Witness ==
  /\ Analyzed
  /\ \A st \in {"unknown", "below", "above", "within"} :
       \E i \in 1..Len(Analysis.categories) : Analysis.categories[i].status = st
  /\ \E i \in 1..Len(Analysis.categories) :
       /\ Analysis.categories[i].status = "above"
       /\ ~IsSome(Analysis.categories[i].min)
  /\ \E i \in 1..Len(Analysis.categories) :
       /\ Analysis.categories[i].status = "below"
       /\ IsSome(Analysis.categories[i].max)
       /\ Analysis.categories[i].count > ValueOf(Analysis.categories[i].max)

SizeNoteKinds == {"size_below", "size_above", "size_correct"}

\* C9: totalCards is the sum of the entries' quantities, and the notes hold
\* exactly one deck-size note: the below note iff total < 99, the above note
\* iff total > 99, the correct note iff total = 99.
C9_TotalAndOneSizeNote ==
  Analyzed =>
    LET total == Analysis.totalCards
        sizeNotes == {i \in 1..Len(Analysis.notes) : Analysis.notes[i].kind \in SizeNoteKinds}
    IN  /\ total = QuantityOf(1..Len(Entries))
        /\ Cardinality(sizeNotes) = 1
        /\ \A i \in sizeNotes :
             /\ Analysis.notes[i].total = total
             /\ Analysis.notes[i].kind = "size_below" <=> total < 99
             /\ Analysis.notes[i].kind = "size_above" <=> total > 99
             /\ Analysis.notes[i].kind = "size_correct" <=> total = 99

\* C9 witness: a deck of two entries with 99 cards got the correct-size
\* note, next to a note on a category.
C9_Witness ==
  /\ Analyzed
  /\ Len(Entries) = 2
  /\ Analysis.totalCards = 99
  /\ \E i \in 1..Len(Analysis.notes) : Analysis.notes[i].kind = "size_correct"
  /\ \E i \in 1..Len(Analysis.notes) : Analysis.notes[i].kind \notin SizeNoteKinds

\* the game-changers list of the bracket the call names (empty if the list
\* files cannot be read)
GameChangersList ==
  LET id == ValueOf(ValueOf(request).templateId)
  IN  IF id \in DOMAIN files.cardLists /\ files.cardLists[id].state = "ok"
        THEN files.cardLists[id].doc.gameChangers
      ELSE <<>>

\* the entries named on that list, trimmed and without regard to case
GameChangerEntries ==
  {k \in 1..Len(Entries) :
     \E i \in 1..Len(GameChangersList) :
        LowerCaseOf[TrimOf[GameChangersList[i]]] = LowerCaseOf[TrimOf[Entries[k].name]]}

GameChangerKinds == {"game_changers_exceed", "game_changers_allowed"}

\* C10: with bracket rules loaded, bracketWarnings holds a Game Changer
\* warning iff the quantity-weighted number of entries on the bracket's
\* game-changers list is above 0, and then exactly one, naming that number
\* and the bracket's maximum: in the exceeds wording iff the number is above
\* maxGameChangers, in the max-allowed wording otherwise.
C10_OneGameChangerWarning ==
  (Analyzed /\ IsSome(Analysis.bracketId)) =>
    LET count == QuantityOf(GameChangerEntries)
        max == ValueOf(bracketRulesCache).brackets[ValueOf(Analysis.bracketId)].maxGameChangers
        ws == {i \in 1..Len(Analysis.bracketWarnings) :
                 Analysis.bracketWarnings[i].kind \in GameChangerKinds}
    IN  /\ ws # {} <=> count > 0
        /\ Cardinality(ws) <= 1
        /\ \A i \in ws :
             /\ Analysis.bracketWarnings[i].count = count
             /\ Analysis.bracketWarnings[i].max = max
             /\ Analysis.bracketWarnings[i].kind = "game_changers_exceed" <=> count > max

\* C10 witness: four Game Changers in bracket 3 (maximum 3), from entries
\* whose names match the list only after trimming and lower-casing, gave
\* exactly one warning, in the exceeds wording, naming 4 and 3.
C10_Witness ==
  /\ Analyzed
  /\ Analysis.bracketId = Some("bracket3")
  /\ \E k \in 1..Len(Entries) : Entries[k].name = "Rhystic Study"
  /\ Cardinality({i \in 1..Len(Analysis.bracketWarnings) :
                    Analysis.bracketWarnings[i].kind \in GameChangerKinds}) = 1
  /\ \E i \in 1..Len(Analysis.bracketWarnings) :
       /\ Analysis.bracketWarnings[i].kind = "game_changers_exceed"
       /\ Analysis.bracketWarnings[i].count = 4
       /\ Analysis.bracketWarnings[i].max = 3

\* the extra-turns list of the bracket the call names (empty if the list
\* files cannot be read)
ExtraTurnsList ==
  LET id == ValueOf(ValueOf(request).templateId)
  IN  IF id \in DOMAIN files.cardLists /\ files.cardLists[id].state = "ok"
        THEN files.cardLists[id].doc.extraTurns
      ELSE <<>>

\* the entries named on that list, trimmed and without regard to case
ExtraTurnEntries ==
  {k \in 1..Len(Entries) :
     \E i \in 1..Len(ExtraTurnsList) :
        LowerCaseOf[TrimOf[ExtraTurnsList[i]]] = LowerCaseOf[TrimOf[Entries[k].name]]}

ExtraTurnKinds == {"extra_turns_exceed", "extra_turns_soft_limit", "extra_turns_info"}

\* C11: with bracket rules loaded, bracketWarnings holds an extra-turn
\* warning iff the quantity-weighted number of entries on the bracket's
\* extra-turns list is above 0, and then exactly one, naming that number: the
\* may-exceed variant iff maxExtraTurnCards is configured and the number is
\* above it, the soft-limit variant iff it is configured and the number is at
\* most it, the informational variant iff no maxExtraTurnCards is configured.
C11_OneExtraTurnWarning ==
  (Analyzed /\ IsSome(Analysis.bracketId)) =>
    LET count == QuantityOf(ExtraTurnEntries)
        max == ValueOf(bracketRulesCache).brackets[ValueOf(Analysis.bracketId)].maxExtraTurnCards
        ws == {i \in 1..Len(Analysis.bracketWarnings) :
                 Analysis.bracketWarnings[i].kind \in ExtraTurnKinds}
    IN  /\ ws # {} <=> count > 0
        /\ Cardinality(ws) <= 1
        /\ \A i \in ws :
             LET w == Analysis.bracketWarnings[i] IN
             /\ w.count = count
             /\ w.kind = "extra_turns_exceed" <=> (IsSome(max) /\ count > ValueOf(max))
             /\ w.kind = "extra_turns_soft_limit" <=> (IsSome(max) /\ count <= ValueOf(max))
             /\ w.kind = "extra_turns_info" <=> ~IsSome(max)
             /\ IsSome(max) => w.max = ValueOf(max)

\* C11 witness: one extra-turn card in a bracket whose configured maximum is
\* 1, from a list entry that matches only after trimming, gave exactly one
\* warning, in the soft-limit variant, naming 1 and 1.
C11_Witness ==
  /\ Analyzed
  /\ Analysis.bracketId = Some("custom")
  /\ QuantityOf(ExtraTurnEntries) = 1
  /\ Cardinality({i \in 1..Len(Analysis.bracketWarnings) :
                    Analysis.bracketWarnings[i].kind \in ExtraTurnKinds}) = 1
  /\ \E i \in 1..Len(Analysis.bracketWarnings) :
       /\ Analysis.bracketWarnings[i].kind = "extra_turns_soft_limit"
       /\ Analysis.bracketWarnings[i].count = 1
       /\ Analysis.bracketWarnings[i].max = 1

\* the call names an identifier whose bracket rules cannot be resolved: the
\* rules file cannot be read, or it has no bracket of that identifier
RulesUnresolvable ==
  /\ Truthy(ValueOf(request).templateId)
  /\ \/ files.rules.state # "ok"
     \/ ValueOf(ValueOf(request).templateId) \notin DOMAIN files.rules.doc.brackets

\* the template of the call can be loaded: its file is readable, or it is
\* missing and the default template is readable
AnalyzeTemplateLoadable ==
  LET id == IF Truthy(ValueOf(request).templateId) THEN ValueOf(ValueOf(request).templateId)
            ELSE "default"
      state == IF id \in DOMAIN files.templates THEN files.templates[id].state ELSE ENOENT
  IN  \/ state = "ok"
      \/ state = ENOENT /\ id # "default" /\ files.templates["default"].state = "ok"

\* the names on the three card lists of the bracket files that can be read
ListedNames ==
  UNION {Range(files.cardLists[id].doc.gameChangers)
           \cup Range(files.cardLists[id].doc.massLandDenial)
           \cup Range(files.cardLists[id].doc.extraTurns) :
         id \in {i \in DOMAIN files.cardLists : files.cardLists[i].state = "ok"}}

\* C12: when the bracket rules of the call's identifier cannot be resolved,
\* the failure does not end the call: with a loadable template and a
\* readable card database (or a deck without entries) analyze returns its
\* full result, and every result it returns has no bracketId, no
\* bracketLabel and no bracket warnings, whatever listed cards the deck
\* holds; an error it raises is the template's or the database's.
C12_RulesFailureNonFatal ==
  (IsSome(response) /\ RulesUnresolvable) =>
    /\ (AnalyzeTemplateLoadable
          /\ (files.oracle.state = "ok" \/ parseDeckText(ValueOf(request).deckText).cards = <<>>))
         => Analyzed
    /\ ValueOf(response).threw => ValueOf(response).error \in {"template", "oracle"}
    /\ Analyzed =>
         /\ Analysis.bracketId = None
         /\ Analysis.bracketLabel = None
         /\ Analysis.bracketWarnings = <<>>
         /\ Analysis.totalCards = QuantityOf(1..Len(Entries))
         /\ Len(Analysis.categories) > 0
         /\ Len(Analysis.notes) > 0

\* C12 witness: the rules file was missing, the deck held a Game Changer and
\* a mass-land-denial card of the named bracket's lists, and the analysis
\* came back without bracket fields and without warnings.
C12_Witness ==
  /\ Analyzed
  /\ files.rules.state = ENOENT
  /\ ValueOf(request).templateId = Some("bracket3")
  /\ {"Demonic Tutor", "Armageddon"} \subseteq {Entries[k].name : k \in 1..Len(Entries)}
  /\ {"Demonic Tutor", "Armageddon"} \subseteq ListedNames
  /\ Analysis.bracketId = None
  /\ Analysis.bracketWarnings = <<>>
  /\ Len(Analysis.categories) = 5

\* C19: analysing the same deck text with the same templateId a second time
\* in the same process, the data files unchanged, gives the outcome of the
\* first call: the same result (input echo, analysis, parsed deck) or the
\* same exception, whether the first call had to read the template, the
\* bracket rules, the card lists and the card database or found them cached.
C19_SecondAnalysisIdentical ==
  IsSome(repeatResponse) => repeatResponse = response

\* a second analysis that returned, with a bracket, bracket warnings and a
\* counted card, after the first call filled every cache
C19_Witness ==
  /\ IsSome(repeatResponse)
  /\ ~ValueOf(repeatResponse).threw
  /\ ValueOf(request).templateId = Some("bracket3")
  /\ DOMAIN templateCache # {}
  /\ IsSome(bracketRulesCache)
  /\ DOMAIN cardListsCache # {}
  /\ IsSome(cachedOracleCards)
  /\ ValueOf(repeatResponse).value.analysis.bracketId # None
  /\ Len(ValueOf(repeatResponse).value.analysis.bracketWarnings) >= 2
  /\ \E k \in 1..Len(ValueOf(repeatResponse).value.analysis.categories) :
       ValueOf(repeatResponse).value.analysis.categories[k].count > 0

(* ----------------- claims on build_deck_from_commander ---------------- *)
BuildInput == ValueOf(buildRequest)
Built == IsSome(buildResponse) /\ ~ValueOf(buildResponse).threw
BuildThrew == IsSome(buildResponse) /\ ValueOf(buildResponse).threw
BuildResult == ValueOf(buildResponse).value

\* the card database cannot be read
DatabaseUnreadable == files.oracle.state # "ok"

\* the database can be read and holds no card of the commander's name
CommanderNotFound ==
  /\ files.oracle.state = "ok"
  /\ \A i \in 1..Len(files.oracle.doc) :
       LowerCaseOf[TrimOf[files.oracle.doc[i].name]] # LowerCaseOf[TrimOf[BuildInput.commanderName]]

TemplateFileState(id) ==
  IF id \in DOMAIN files.templates THEN files.templates[id].state ELSE ENOENT

\* the template the build asks for cannot be loaded: its file is unreadable
\* for another reason than not existing, or it does not exist and the
\* default template cannot be read either
TemplateUnloadable ==
  LET id == IF BuildInput.templateId \in {None, Some("")} THEN "bracket3"
            ELSE ValueOf(BuildInput.templateId)
  IN  \/ TemplateFileState(id) = INVALID
      \/ TemplateFileState(id) = ENOENT /\ (id = "default" \/ TemplateFileState("default") # "ok")

\* a complete BuildDeckResult: commander, cards, the identifiers used, the
\* analysis of the cards returned and the notes
CompleteResult ==
  /\ DOMAIN ValueOf(buildResponse) = {"threw", "value"}
  /\ BuildResult.deck.commanderName # ""
  /\ Len(BuildResult.deck.cards) > 0
  /\ BuildResult.templateId # "" /\ BuildResult.bracketId # ""
  /\ Len(BuildResult.analysis.categories) > 0
  /\ Len(BuildResult.notes) > Len(BuildResult.analysis.notes)

\* C1 as stated: the build raises an error exactly when the lookup of the
\* commander's name returns not-found.
C1_OnlyCommanderFatal ==
  IsSome(buildResponse) => (ValueOf(buildResponse).threw <=> CommanderNotFound)

\* C1 amended: the build raises an error, and returns no partial result,
\* exactly when the card database cannot be read, the commander's name is
\* not found in it, or the template cannot be loaded (its file is broken, or
\* missing with no readable default template); whatever else fails (the
\* bracket rules, a missing template file with a readable default, a seed
\* card, an autofill candidate, the EDHREC fetches) the build gives a
\* complete result. The error is raised before any fetch is started.
C1_FatalFailures ==
  IsSome(buildResponse) =>
    /\ ValueOf(buildResponse).threw <=>
         (DatabaseUnreadable \/ CommanderNotFound \/ TemplateUnloadable)
    /\ BuildThrew =>
         /\ DOMAIN ValueOf(buildResponse) = {"threw", "error"}
         /\ buildFrame = None /\ topCardsTask = None /\ topLandsTask = None
    /\ Built => CompleteResult

\* C1 witness: a build returned its result although the bracket rules were
\* not found, the template file was missing (the default was used), a seed
\* card was unknown, a fetch failed and a suggested card was unknown.
C1_Witness ==
  /\ Built
  /\ BuildResult.bracketLabel = None
  /\ BuildResult.templateId = "nope"
  /\ \E i \in 1..Len(BuildResult.deck.cards) : BuildResult.deck.cards[i].roles = None
  /\ BuildInput.useEdhrecAutofill
  /\ "top/red.json" \notin network
  /\ "top/red.json" \in Range(ValueOf(BuildResult.edhrecContext).sourcesUsed)
  /\ \E i \in 1..Len(ValueOf(BuildResult.edhrecContext).suggestions) :
       ValueOf(BuildResult.edhrecContext).suggestions[i].name = "Cyclonic Rift"
  /\ Len(BuildResult.deck.cards) > 4

\* the template the build is made against: the one asked for ("bracket3" if
\* none is), or the default template if that file does not exist
BuildTemplate ==
  LET id == IF Truthy(BuildInput.templateId) THEN ValueOf(BuildInput.templateId) ELSE "bracket3"
  IN  IF TemplateFileState(id) = "ok" THEN files.templates[id].doc
      ELSE files.templates["default"].doc

\* landsMin + landsMax: the bounds of the template's lands category, 35 and
\* 38 where it gives none
LandsBoundsSum ==
  LET lands == Named(BuildTemplate.categories, "lands")
      min == IF \E c \in lands : IsSome(c.min)
               THEN ValueOf((CHOOSE c \in lands : IsSome(c.min)).min) ELSE 35
      max == IF \E c \in lands : IsSome(c.max)
               THEN ValueOf((CHOOSE c \in lands : IsSome(c.max)).max) ELSE 38
  IN  min + max

\* round(x / 2): the integer nearest to x / 2, the upper one of two
RoundedHalf(x) == CHOOSE t \in 0..x : 2 * t \in {x, x + 1}

\* the commander's colour identity as the card database lists it
CommanderColors ==
  (CHOOSE c \in Range(files.oracle.doc) :
     /\ LowerCaseOf[TrimOf[c.name]] = LowerCaseOf[TrimOf[BuildInput.commanderName]]
     /\ c.lang = "en").color_identity

\* its colours that have a basic land, in that order
MappedColors == SelectSeq(CommanderColors, LAMBDA c : c \in {"W", "U", "B", "R", "G"})

BasicLandOf(c) ==
  CASE c = "W" -> "Plains" [] c = "U" -> "Island" [] c = "B" -> "Swamp"
    [] c = "R" -> "Mountain" [] c = "G" -> "Forest"

SeedCount == IF IsSome(BuildInput.seedCards) THEN Len(ValueOf(BuildInput.seedCards)) ELSE 0

\* the land base of the built deck: the entries that follow the seed cards,
\* one per mapped colour (one in all for a commander without colours)
LandBase ==
  SubSeq(BuildResult.deck.cards, SeedCount + 1,
         SeedCount + (IF Len(MappedColors) = 0 THEN 1 ELSE Len(MappedColors)))

\* C13: the land base of every build totals target_lands =
\* round((landsMin + landsMax) / 2): one placeholder entry (Wastes) of that
\* quantity for a colourless commander; for k >= 1 mapped colours k entries,
\* the basic lands of the colours in colour-identity order, whose quantities
\* sum to target_lands, differ pairwise by at most 1, the first
\* (target_lands mod k) of them holding the extra copy.
C13_LandBaseTotalsTarget ==
  Built =>
    \A lands \in {LandBase} :
      LET target == RoundedHalf(LandsBoundsSum)
          k == Len(MappedColors)
      IN  /\ SumSeq([i \in 1..Len(lands) |-> lands[i].quantity]) = target
          /\ \A i \in 1..Len(lands) : lands[i].roles = Some(<<"land">>)
          /\ k = 0 => lands = <<[name |-> "Wastes", quantity |-> target, roles |-> Some(<<"land">>)]>>
          /\ k >= 1 =>
               /\ Len(lands) = k
               /\ \A i \in 1..k : lands[i].name = BasicLandOf(MappedColors[i])
               /\ \A i, j \in 1..k : lands[i].quantity - lands[j].quantity \in {-1, 0, 1}
               /\ \A i \in 1..k :
                    lands[i].quantity = (target \div k) + (IF i <= target % k THEN 1 ELSE 0)

\* C13 witness: a two-colour commander, two seed cards and a target of 37
\* lands gave two basic-land entries of 19 and 18 behind the seed cards.
C13_Witness ==
  /\ Built
  /\ SeedCount = 2
  /\ RoundedHalf(LandsBoundsSum) = 37
  /\ Len(MappedColors) = 2
  /\ LandBase[1].quantity = 19 /\ LandBase[2].quantity = 18
  /\ LandBase[1].name # LandBase[2].name

\* the colour of the commander that comes first in W, U, B, R, G order
FirstInWubrg ==
  Head(SelectSeq(<<"W", "U", "B", "R", "G">>, LAMBDA c : c \in Range(MappedColors)))

\* a two-colour commander and an odd target land count
TwoColoursOddTarget ==
  /\ Built
  /\ Len(MappedColors) = 2
  /\ MappedColors[1] # MappedColors[2]
  /\ RoundedHalf(LandsBoundsSum) % 2 = 1

\* C14 as stated: for a two-colour commander and an odd target land count
\* the remainder copy goes to the basic land of the colour that comes first
\* in W, U, B, R, G order, however the card database orders the identity.
C14_RemainderToWubrgFirst ==
  TwoColoursOddTarget =>
    \A lands \in {LandBase} :
      \E i \in 1..Len(lands) :
        /\ lands[i].name = BasicLandOf(FirstInWubrg)
        /\ lands[i].quantity = (RoundedHalf(LandsBoundsSum) + 1) \div 2

\* C14 amended: for a two-colour commander and an odd target land count the
\* remainder copy goes to the basic land of the colour the card database
\* lists first in the commander's colour identity, and that entry comes
\* first: identity U, R with 37 lands gives Island 19 / Mountain 18, and
\* identity R, U gives Mountain 19 / Island 18.
C14_RemainderToFirstListed ==
  TwoColoursOddTarget =>
    \A lands \in {LandBase} :
      /\ Len(lands) = 2
      /\ lands[1].name = BasicLandOf(CommanderColors[1])
      /\ lands[1].quantity = (RoundedHalf(LandsBoundsSum) + 1) \div 2
      /\ lands[2].name = BasicLandOf(CommanderColors[2])
      /\ lands[2].quantity = (RoundedHalf(LandsBoundsSum) - 1) \div 2

\* C14 witness: a commander whose identity the database lists as R, U was
\* built with 37 lands: Mountain 19, then Island 18.
C14_Witness ==
  /\ TwoColoursOddTarget
  /\ CommanderColors = <<"R", "U">>
  /\ FirstInWubrg = "U"
  /\ LandBase = <<[name |-> "Mountain", quantity |-> 19, roles |-> Some(<<"land">>)],
                  [name |-> "Island", quantity |-> 18, roles |-> Some(<<"land">>)]>>

\* C15 as stated: the built deck's entries, written as one line
\* `1 <name>` per copy and parsed again by parseDeckText, give a parsed deck
\* whose total quantity is the sum of the built deck's entry quantities,
\* whatever the seed-card names.
C15_RoundTripTotal ==
  Built =>
    \A cards \in {BuildResult.deck.cards} :
      \A parsed \in {parseDeckText(deckTextOf(cards, Len(cards)))} :
        SumSeq([k \in 1..Len(parsed.cards) |-> parsed.cards[k].quantity]) = totalOf(cards)

\* the analysis of the skeleton, made before the autofill
Baseline == ValueOf(buildFrame).analysis

\* the note that closes the autofill, with the number of cards added per
\* category
AutofillNotes ==
  {BuildResult.notes[i] :
     i \in {j \in 1..Len(BuildResult.notes) : BuildResult.notes[j].kind = "autofill_complete"}}
Autofilled == Built /\ AutofillNotes # {}
AutofillCounts == (CHOOSE n \in AutofillNotes : TRUE).counts

Priority == <<"ramp", "card_draw", "target_removal", "board_wipes">>

\* the cards the autofill appended: those behind the seed cards and the
\* land base
Appended ==
  SubSeq(BuildResult.deck.cards, SeedCount + Len(LandBase) + 1, Len(BuildResult.deck.cards))

\* the positions in Appended of the cards counted as added for the i-th
\* priority category
AppendedFor(i) ==
  LET before == SumSeq([j \in 1..(i - 1) |-> AutofillCounts[Priority[j]]])
  IN  (before + 1)..(before + AutofillCounts[Priority[i]])

\* the autofill reported a deficit of d for category c and reported it
\* filled with d cards
ClosedDeficit(c, d) ==
  /\ [kind |-> "deficit", name |-> c, deficit |-> d] \in Range(BuildResult.notes)
  /\ [kind |-> "filled", name |-> c, count |-> d] \in Range(BuildResult.notes)

\* the count an analysis gives category c
CountIn(analysis, c) ==
  (CHOOSE s \in Named(analysis.categories, c) : TRUE).count

\* the appended entry has a role of category c
CountsToward(entry, c) ==
  \E r \in Range(ValueOf(entry.roles)) : <<r, c>> \in TablePairs

\* C16 as stated: when the autofill closed a deficit of d for a priority
\* category, the analysis made after the autofill counts that category at
\* its count before the autofill plus exactly d, whatever was appended for
\* the other categories.
C16_CountRisesByDeficit ==
  Autofilled =>
    \A i \in 1..Len(Priority) : \A d \in 1..10 :
      ClosedDeficit(Priority[i], d) =>
        CountIn(BuildResult.analysis, Priority[i]) = CountIn(Baseline, Priority[i]) + d

\* C16 amended: when the autofill closed a deficit of d for a priority
\* category, it appended d cards for it, one copy each and each of that
\* category, and the analysis made after the autofill counts the category at
\* its count before the autofill plus d plus the number of cards appended
\* for other categories that also have a role of this category: at least d
\* more, and exactly d more only if no such card was appended.
C16_CountRisesByDeficitAndShared ==
  Autofilled =>
    \A cards \in {Appended} :
      \A i \in 1..Len(Priority) : \A d \in 1..10 :
        ClosedDeficit(Priority[i], d) =>
          /\ AutofillCounts[Priority[i]] = d
          /\ \A k \in AppendedFor(i) :
               cards[k].quantity = 1 /\ CountsToward(cards[k], Priority[i])
          /\ CountIn(BuildResult.analysis, Priority[i]) =
               CountIn(Baseline, Priority[i]) + d
                 + Cardinality({k \in (1..Len(cards)) \ AppendedFor(i) :
                                  CountsToward(cards[k], Priority[i])})

\* C16 witness: a card_draw deficit of 1 was closed by one card, a card
\* appended for target_removal draws cards as well, and the analysis after
\* the autofill counts card_draw two higher than before.
C16_Witness ==
  /\ Autofilled
  /\ ClosedDeficit("card_draw", 1)
  /\ ClosedDeficit("target_removal", 1)
  /\ \E k \in AppendedFor(3) : CountsToward(Appended[k], "card_draw")
  /\ CountIn(BuildResult.analysis, "card_draw") = CountIn(Baseline, "card_draw") + 2

\* the build asked for recommendations
FetchRequested == BuildInput.useEdhrec \/ BuildInput.useEdhrecAutofill

\* a page the two recommendation calls always ask for (the first top-cards
\* page, every top-lands page) could not be fetched
SomeFetchFailed ==
  \E path \in {Head(topCardsPages(CommanderColors)).path}
                \cup {topLandsPages(CommanderColors)[i].path :
                        i \in 1..Len(topLandsPages(CommanderColors))} :
    path \notin network

\* C17 as stated: when a recommendation fetch fails the build completes, a
\* note recording the failure is among the result's notes and the result has
\* no recommendation context.
C17_FetchFailureNotedNoContext ==
  (IsSome(buildResponse) /\ IsSome(buildFrame) /\ FetchRequested /\ SomeFetchFailed) =>
    /\ Built
    /\ \E i \in 1..Len(BuildResult.notes) : BuildResult.notes[i].kind = "edhrec_could_not_fetch"
    /\ BuildResult.edhrecContext = None

\* the template asked for does not exist and the default template is used
TemplateFellBack ==
  LET id == IF Truthy(BuildInput.templateId) THEN ValueOf(BuildInput.templateId) ELSE "bracket3"
  IN  id # "default" /\ TemplateFileState(id) = ENOENT

\* the bracket rules of identifier id cannot be resolved
NoRulesFor(id) == files.rules.state # "ok" \/ id \notin DOMAIN files.rules.doc.brackets

\* the lookup the build makes (bracketId) and the one its analysis makes
\* (templateId)
BuildRulesFailed ==
  NoRulesFor(IF Truthy(BuildInput.bracketId) THEN ValueOf(BuildInput.bracketId) ELSE "bracket3")
AnalyzeRulesFailed ==
  NoRulesFor(IF Truthy(BuildInput.templateId) THEN ValueOf(BuildInput.templateId) ELSE "bracket3")

\* the card database has no card of that name
UnknownCard(name) ==
  \A i \in 1..Len(files.oracle.doc) :
    LowerCaseOf[TrimOf[files.oracle.doc[i].name]] # LowerCaseOf[TrimOf[name]]

\* an entry of the built deck is not in the card database
EntryLookupFailed ==
  \E i \in 1..Len(BuildResult.deck.cards) : UnknownCard(BuildResult.deck.cards[i].name)

\* the autofill ran over a suggestion that is not in the card database
CandidateLookupFailed ==
  /\ Autofilled
  /\ \E i \in 1..Len(ValueOf(BuildResult.edhrecContext).suggestions) :
       UnknownCard(ValueOf(BuildResult.edhrecContext).suggestions[i].name)

NoteKindsOf(notes) == {notes[i].kind : i \in 1..Len(notes)}

BuilderNoteKinds ==
  {"commander", "template_lands", "seeds", "colorless_lands", "unmapped_colors", "distributing",
   "skeleton", "land_shell_hint", "exceeds", "size_ok", "fetching", "edhrec_fetched",
   "separator", "autofill_enabled", "deficit", "filled", "unfilled", "autofill_complete",
   "cards_needed", "builder_info", "skeleton_of", "not_fully_filled", "use_edhrec",
   "analysis_notes"}

\* the notes of an analysis: on the deck size and on a category out of range
AnalysisNoteKinds ==
  {"size_below", "size_above", "size_correct", "category_below", "category_above"}

Resolved(name) == getCardByName(files.oracle.doc, name)

\* the position of a category in the fill priority the specification gives
PriorityIndex(c) == CHOOSE i \in 1..Len(Priority) : Priority[i] = c

\* the suggestions the autofill had to choose from
Suggestions == ValueOf(BuildResult.edhrecContext).suggestions

\* the positions in the log of the suggestions examined for category c
ExaminedFor(c) == {k \in 1..Len(autofillLog) : autofillLog[k].category = c}

\* the positions in the log of the suggestions that were added to the deck
AddedEvents == {k \in 1..Len(autofillLog) : autofillLog[k].added}

\* the deficit the autofill reported for category c (0 when it reported none)
ReportedDeficit(c) ==
  IF \E d \in 1..10 : [kind |-> "deficit", name |-> c, deficit |-> d] \in Range(BuildResult.notes)
    THEN CHOOSE d \in 1..10 :
           [kind |-> "deficit", name |-> c, deficit |-> d] \in Range(BuildResult.notes)
  ELSE 0

\* the scan for category c has ended: its deficit is filled, or every
\* suggestion was examined for it
ScanEnded(c) ==
  \/ Cardinality(ExaminedFor(c) \cap AddedEvents) = ReportedDeficit(c)
  \/ Cardinality(ExaminedFor(c)) = Len(Suggestions)

\* the k-th added suggestion of the log
RECURSIVE AddedBefore(_)
AddedBefore(k) ==
  IF k = 0 THEN 0 ELSE AddedBefore(k - 1) + (IF autofillLog[k].added THEN 1 ELSE 0)

\* C20: the autofill works through the categories in the order ramp,
\* card_draw, target_removal, board_wipes. The suggestions it examines are
\* examined for categories in that order, never going back; the cards it
\* appends to the deck are the added suggestions in the order of examination,
\* so a card added for an earlier category stands before every card added for
\* a later one; and a category is examined only with a reported deficit, and
\* only once the scan of every earlier category that had a deficit has ended
\* (deficit filled or every suggestion examined).
C20_CategoriesInPriorityOrder ==
  Autofilled =>
    /\ \A k \in 1..Len(autofillLog) :
         /\ autofillLog[k].category \in Range(Priority)
         /\ ReportedDeficit(autofillLog[k].category) > 0
         /\ \A j \in 1..(k - 1) :
              PriorityIndex(autofillLog[j].category) <= PriorityIndex(autofillLog[k].category)
         /\ \A i \in 1..(PriorityIndex(autofillLog[k].category) - 1) :
              /\ ReportedDeficit(Priority[i]) > 0 => ExaminedFor(Priority[i]) # {}
              /\ ExaminedFor(Priority[i]) # {} =>
                   /\ ScanEnded(Priority[i])
                   /\ \A j \in ExaminedFor(Priority[i]) : j < k
    /\ \A c \in Range(Priority) : ExaminedFor(c) # {} => ScanEnded(c)
    /\ Len(Appended) = Cardinality(AddedEvents)
    /\ \A k \in AddedEvents :
         Appended[AddedBefore(k)].name = Resolved(autofillLog[k].name).name
    /\ \A j, k \in AddedEvents :
         PriorityIndex(autofillLog[j].category) < PriorityIndex(autofillLog[k].category)
           => AddedBefore(j) < AddedBefore(k)

\* an autofill that added a card for each of two categories, the earlier one
\* after its scan ran through the whole list of suggestions without filling
\* the deficit
C20_Witness ==
  /\ Autofilled
  /\ \E j, k \in AddedEvents :
       /\ PriorityIndex(autofillLog[j].category) < PriorityIndex(autofillLog[k].category)
       /\ Cardinality(ExaminedFor(autofillLog[j].category) \cap AddedEvents)
            < ReportedDeficit(autofillLog[j].category)
       /\ Cardinality(ExaminedFor(autofillLog[j].category)) = Len(Suggestions)
  /\ \E c \in Range(Priority) :
       /\ ExaminedFor(c) # {}
       /\ Cardinality(ExaminedFor(c)) < Len(Suggestions)

(* ------------------------ claims on the autofill ----------------------- *)
\* the deck the autofill started from: the seed cards and the land base
BaseDeck == ValueOf(buildFrame).builtCards

\* the Game-Changer maximum the autofill works with
EffectiveMax ==
  IF NoRulesFor(BuildResult.bracketId) THEN 3
  ELSE files.rules.doc.brackets[BuildResult.bracketId].maxGameChangers

\* the name is on a list of the build's bracket
IsGameChangerName(name) == isGameChanger(EmptyMap, files, name, BuildResult.bracketId)
IsDenialName(name) == isMassLandDenial(EmptyMap, files, name, BuildResult.bracketId)
IsExtraTurnName(name) == isExtraTurnCard(EmptyMap, files, name, BuildResult.bracketId)

\* the lower-cased names in the deck, and the running Game-Changer count,
\* when the k-th suggestion of the log is examined
DeckNamesBefore(k) ==
  {LowerCaseOf[BaseDeck[i].name] : i \in 1..Len(BaseDeck)}
    \cup {LowerCaseOf[Appended[j].name] : j \in 1..AddedBefore(k - 1)}

GameChangersBefore(k) ==
  SumSeq([i \in 1..Len(BaseDeck) |->
            IF IsGameChangerName(BaseDeck[i].name) THEN BaseDeck[i].quantity ELSE 0])
    + Cardinality({j \in 1..AddedBefore(k - 1) : IsGameChangerName(Appended[j].name)})

\* a suggestion of that name is eligible for category c, the deck holding
\* the names deckNames and gameChangers Game Changers
Eligible(name, c, deckNames, gameChangers) ==
  /\ LowerCaseOf[name] \notin deckNames
  /\ Resolved(name).found
  /\ Range(Resolved(name).color_identity) \subseteq Range(CommanderColors)
  /\ ~(IsGameChangerName(name) /\ gameChangers >= EffectiveMax)
  /\ ~IsDenialName(name)
  /\ ~IsExtraTurnName(name)
  /\ c \in cardRolesToCategories(classifyCardRoles(Resolved(name)))

\* the number of cards added for category c
AddedFor(c) == Cardinality(ExaminedFor(c) \cap AddedEvents)

\* the number of different cards among the suggestions that are eligible for
\* category c when its scan starts
EligibleAtStart(c) ==
  LET first == MinOf(ExaminedFor(c))
  IN  Cardinality({Resolved(Suggestions[i].name).name :
                     i \in {j \in 1..Len(Suggestions) :
                              Eligible(Suggestions[j].name, c, DeckNamesBefore(first),
                                       GameChangersBefore(first))}})

Min(a, b) == IF a <= b THEN a ELSE b

EventOfAppended(j) == CHOOSE k \in AddedEvents : AddedBefore(k) = j

\* C22: every entry the autofill appended has quantity 1 and the name of a
\* card of the database, carries that card's roles, has a colour identity
\* within the commander's, is on neither the mass-land-denial nor the
\* extra-turn list of the build's bracket, and has a role of the category
\* that was being filled when it was added.
C22_AppendedCardsAreEligible ==
  Autofilled =>
    \A j \in 1..Len(Appended) :
      /\ Appended[j].quantity = 1
      /\ Resolved(Appended[j].name).found
      /\ Resolved(Appended[j].name).name = Appended[j].name
      /\ Appended[j].roles = Some(classifyCardRoles(Resolved(Appended[j].name)))
      /\ Range(Resolved(Appended[j].name).color_identity) \subseteq Range(CommanderColors)
      /\ ~IsDenialName(Appended[j].name)
      /\ ~IsExtraTurnName(Appended[j].name)
      /\ autofillLog[EventOfAppended(j)].category
           \in cardRolesToCategories(ValueOf(Appended[j].roles))

\* the suggestion examined at log position k was new to the deck, known,
\* within the commander's colours and of the category being filled
OtherwiseEligible(k) ==
  /\ LowerCaseOf[autofillLog[k].name] \notin DeckNamesBefore(k)
  /\ Resolved(autofillLog[k].name).found
  /\ Range(Resolved(autofillLog[k].name).color_identity) \subseteq Range(CommanderColors)
  /\ autofillLog[k].category
       \in cardRolesToCategories(classifyCardRoles(Resolved(autofillLog[k].name)))

\* an autofill that appended cards and passed over an extra-turn card and a
\* mass-land-denial card that were eligible in every other respect, and
\* over a card outside the commander's colours and an unknown card
C22_Witness ==
  /\ Autofilled
  /\ Len(Appended) >= 2
  /\ \E k \in 1..Len(autofillLog) :
       OtherwiseEligible(k) /\ IsExtraTurnName(autofillLog[k].name) /\ ~autofillLog[k].added
  /\ \E k \in 1..Len(autofillLog) :
       OtherwiseEligible(k) /\ IsDenialName(autofillLog[k].name) /\ ~autofillLog[k].added
  /\ \E k \in 1..Len(autofillLog) :
       /\ Resolved(autofillLog[k].name).found
       /\ ~(Range(Resolved(autofillLog[k].name).color_identity) \subseteq Range(CommanderColors))
  /\ \E k \in 1..Len(autofillLog) : ~Resolved(autofillLog[k].name).found

\* C23: no entry the autofill appended has the name, compared without
\* regard to case, of another entry of the returned deck (a seed card, a
\* basic land or another appended card).
C23_NoCardAddedTwice ==
  Autofilled =>
    \A i \in 1..Len(BuildResult.deck.cards) :
      \A j \in (Len(BaseDeck) + 1)..Len(BuildResult.deck.cards) :
        i # j =>
          LowerCaseOf[BuildResult.deck.cards[i].name]
            # LowerCaseOf[BuildResult.deck.cards[j].name]

\* the quantity-weighted number of Game Changers among the entries
GameChangerCountOf(entries) ==
  SumSeq([i \in 1..Len(entries) |->
            IF IsGameChangerName(entries[i].name) THEN entries[i].quantity ELSE 0])

\* C24: the autofill adds a Game Changer only while the running count (the
\* Game Changers of the deck before the autofill, by quantity, plus those
\* added so far) is below the effective maximum, the bracket's
\* maxGameChangers or 3 without bracket rules; hence the Game-Changer count
\* of the returned deck is at most the larger of the count before the
\* autofill and the effective maximum.
C24_GameChangerLimitKept ==
  Autofilled =>
    /\ \A k \in AddedEvents :
         IsGameChangerName(autofillLog[k].name) => GameChangersBefore(k) < EffectiveMax
    /\ GameChangerCountOf(BuildResult.deck.cards)
         <= Max(GameChangerCountOf(BaseDeck), EffectiveMax)
    /\ GameChangerCountOf(BuildResult.deck.cards)
         = GameChangerCountOf(BaseDeck)
             + Cardinality({k \in AddedEvents : IsGameChangerName(autofillLog[k].name)})

\* an autofill that added a Game Changer below the maximum and then passed
\* over a Game Changer, eligible in every other respect, at the maximum
C24_Witness ==
  /\ Autofilled
  /\ \E k \in AddedEvents :
       /\ IsGameChangerName(autofillLog[k].name)
       /\ GameChangersBefore(k) = EffectiveMax - 1
  /\ \E k \in 1..Len(autofillLog) :
       /\ ~autofillLog[k].added
       /\ OtherwiseEligible(k)
       /\ IsGameChangerName(autofillLog[k].name)
       /\ ~IsDenialName(autofillLog[k].name) /\ ~IsExtraTurnName(autofillLog[k].name)
       /\ GameChangersBefore(k) >= EffectiveMax
  /\ GameChangerCountOf(BuildResult.deck.cards) = EffectiveMax

(* -------------------- claims on the two EDHREC calls ------------------ *)
\* the task run to its end with no other call in between, from where it is
RECURSIVE runAlone(_)
runAlone(task) ==
  IF task.pending = <<>> THEN task
  ELSE runAlone(taskStep(task, fetchEdhrecJson(edhrecCache, network,
                                               Head(task.pending).path).result))

\* the two calls run one after the other from the start of the build
TopCardsAlone == topCardsOf(runAlone(Task(topCardsPages(ValueOf(buildFrame).colorIdentity))))
TopLandsAlone == topLandsOf(runAlone(Task(topLandsPages(ValueOf(buildFrame).colorIdentity))))

NoNameTwice(q) == \A i, j \in 1..Len(q) : i # j => q[i].name # q[j].name

\* the suggestions of the pages, in the order the pages are read, up to the
\* first fatal failure
RECURSIVE extractedInOrder(_)
extractedInOrder(pages) ==
  IF pages = <<>> THEN <<>>
  ELSE Bind(fetchEdhrecJson(edhrecCache, network, Head(pages).path).result, LAMBDA f :
         IF f.ok THEN extractSuggestionsFromJson(f.doc, SourceTag[Head(pages).path])
                        \o extractedInOrder(Tail(pages))
         ELSE IF Head(pages).fatal THEN <<>>
         ELSE extractedInOrder(Tail(pages)))

\* every element of q is the first suggestion of its name the pages give
FirstSeenKept(q, pages) ==
  Bind(extractedInOrder(pages), LAMBDA all :
    \A i \in 1..Len(q) :
      \E k \in 1..Len(all) :
        /\ all[k] = q[i]
        /\ \A h \in 1..(k - 1) : all[h].name # q[i].name)

\* C25 (as the code has it): whatever the order in which the fetches of the
\* two concurrent calls come back, each call ends with what it gives when it
\* runs alone, and the suggestion list of the result is the top cards
\* followed by the top lands; within each of the two lists no name occurs
\* twice and the suggestion kept for a name is the first one seen.
C25_SuggestionsIndependentOfCompletionOrder ==
  /\ (IsSome(buildFrame) /\ IsSome(topCardsTask)) =>
       topCardsOf(runAlone(ValueOf(topCardsTask))) = TopCardsAlone
  /\ (IsSome(buildFrame) /\ IsSome(topLandsTask)) =>
       topLandsOf(runAlone(ValueOf(topLandsTask))) = TopLandsAlone
  /\ (Built /\ IsSome(BuildResult.edhrecContext) /\ IsSome(topCardsTask)) =>
       /\ Suggestions = TopCardsAlone \o TopLandsAlone
       /\ NoNameTwice(TopCardsAlone) /\ NoNameTwice(TopLandsAlone)
       /\ FirstSeenKept(TopCardsAlone, topCardsPages(ValueOf(buildFrame).colorIdentity))
       /\ FirstSeenKept(TopLandsAlone, topLandsPages(ValueOf(buildFrame).colorIdentity))

\* C25 (as stated): no card name occurs twice in the suggestion list of a
\* build result.
C25_NoNameTwiceInSuggestions ==
  (Built /\ IsSome(BuildResult.edhrecContext)) => NoNameTwice(Suggestions)

\* a build whose two calls each read several pages, each dropped a name it
\* had seen, and both gave the same name
C25_Witness ==
  /\ Built /\ IsSome(BuildResult.edhrecContext) /\ IsSome(topCardsTask)
  /\ Len(topCardsPages(ValueOf(buildFrame).colorIdentity)) > 1
  /\ Len(topLandsPages(ValueOf(buildFrame).colorIdentity)) > 1
  /\ Len(TopCardsAlone)
       < Len(extractedInOrder(topCardsPages(ValueOf(buildFrame).colorIdentity)))
  /\ Len(TopLandsAlone)
       < Len(extractedInOrder(topLandsPages(ValueOf(buildFrame).colorIdentity)))
  /\ \E i \in 1..Len(TopCardsAlone) : \E j \in 1..Len(TopLandsAlone) :
       TopCardsAlone[i].name = TopLandsAlone[j].name
  /\ Suggestions = TopCardsAlone \o TopLandsAlone

(* ------------------ claims on the deck the build returns -------------- *)
\* C26: the returned deck starts with the entries of the deck before the
\* autofill (seed cards, then the land base), each at its position with its
\* name, quantity and roles; without autofill it is that deck, and with
\* autofill it is that deck followed by one entry per card added, in the
\* order in which the cards were added.
C26_AutofillOnlyAppends ==
  Built =>
    /\ Len(BaseDeck) = SeedCount + Len(LandBase)
    /\ Len(BuildResult.deck.cards) >= Len(BaseDeck)
    /\ \A i \in 1..Len(BaseDeck) : BuildResult.deck.cards[i] = BaseDeck[i]
    /\ ~Autofilled => BuildResult.deck.cards = BaseDeck
    /\ Autofilled =>
         /\ Len(BuildResult.deck.cards) = Len(BaseDeck) + Cardinality(AddedEvents)
         /\ \A j \in 1..Cardinality(AddedEvents) :
              /\ BuildResult.deck.cards[Len(BaseDeck) + j].name
                   = Resolved(autofillLog[EventOfAppended(j)].name).name
              /\ BuildResult.deck.cards[Len(BaseDeck) + j].quantity = 1

\* an autofill that added several cards to a deck of seed cards and lands
C26_Witness ==
  /\ Autofilled
  /\ SeedCount >= 1 /\ Len(LandBase) >= 2
  /\ Cardinality(AddedEvents) >= 2
  /\ SubSeq(BuildResult.deck.cards, 1, Len(BaseDeck)) = BaseDeck

\* the analysis the analyzer gives for the cards, as the builder asks for it
AnalysisOfCards(cards) ==
  Bind(deckTextOf(cards, Len(cards)), LAMBDA deckText :
    analyzeDeckBasic(proc,
                     [deckText |-> deckText,
                      templateId |-> Some(ValueOf(buildFrame).templateId),
                      banlistId |-> BuildInput.banlistId],
                     parseDeckText(deckText)).value.analysis)

\* the autofill was asked for and there were suggestions
AutofillDue ==
  /\ BuildInput.useEdhrecAutofill
  /\ IsSome(BuildResult.edhrecContext)
  /\ Len(Suggestions) > 0

\* the autofill runs exactly when it is asked for and there are suggestions;
\* without it the result holds the deck and the analysis of the skeleton,
\* with it the analysis of the deck after the last addition
AutofillRunsWhenDue ==
  Built =>
    /\ Autofilled <=> AutofillDue
    /\ ~Autofilled =>
         /\ BuildResult.deck.cards = BaseDeck
         /\ BuildResult.analysis = Baseline
    /\ Autofilled => BuildResult.analysis = AnalysisOfCards(BuildResult.deck.cards)

\* C27: the autofill runs if and only if useEdhrecAutofill is set and the
\* suggestion list is not empty; if it did not run the result holds the deck
\* of seed cards and land base and the baseline analysis, if it ran the
\* analysis of the deck after the last addition; so in every result the
\* analysis' totalCards is the sum of the quantities of the returned deck.
C27_AnalysisIsOfTheReturnedDeck ==
  /\ AutofillRunsWhenDue
  /\ Built => BuildResult.analysis.totalCards = totalOf(BuildResult.deck.cards)

\* the card lists of a bracket as the data directory has them
ListsOf(bracketId) == loadBracketCardLists(EmptyMap, files, bracketId).lists

\* C28: the bracket checks of the returned analysis are made against the
\* bracket the build resolved: the bracket id and label of the analysis are
\* those of the result, and the card lists the analysis took its bracket
\* warnings from are the lists the autofill excluded cards by, whatever
\* input.templateId and input.bracketId are.
C28_AnalysisChecksTheResolvedBracket ==
  (Built /\ IsSome(BuildResult.analysis.bracketId)) =>
    /\ ValueOf(BuildResult.analysis.bracketId) = BuildResult.bracketId
    /\ BuildResult.analysis.bracketLabel = BuildResult.bracketLabel
    /\ ListsOf(BuildResult.templateId) = ListsOf(BuildResult.bracketId)

\* C29 (as stated): a deck of at most 99 cards before the autofill holds at
\* most 99 cards after it.
C29_AutofillKeepsDeckWithinSize ==
  (Autofilled /\ totalOf(BaseDeck) <= COMMANDER_DECK_SIZE) =>
    totalOf(BuildResult.deck.cards) <= COMMANDER_DECK_SIZE

\* C29 (as the code has it): the autofill adds one card per addition
\* whatever the size of the deck, at most as many as the deficits it
\* reported for the priority categories add up to, and the note on the size
\* that follows it tells a deck of more than 99 cards from one of 99 and
\* from one of fewer.
C29_AutofillAddsWithinDeficitsAndNotesSize ==
  Autofilled =>
    /\ totalOf(BuildResult.deck.cards) = totalOf(BaseDeck) + Cardinality(AddedEvents)
    /\ Cardinality(AddedEvents)
         <= SumSeq([i \in 1..Len(Priority) |-> ReportedDeficit(Priority[i])])
    /\ \A total \in {totalOf(BuildResult.deck.cards)} :
         /\ total > COMMANDER_DECK_SIZE =>
              [kind |-> "exceeds", total |-> total, excess |-> total - COMMANDER_DECK_SIZE]
                \in Range(BuildResult.notes)
         /\ total = COMMANDER_DECK_SIZE =>
              [kind |-> "size_ok", total |-> total] \in Range(BuildResult.notes)
         /\ total < COMMANDER_DECK_SIZE =>
              [kind |-> "cards_needed", total |-> total,
               missing |-> COMMANDER_DECK_SIZE - total] \in Range(BuildResult.notes)

\* an autofill that took a deck of 99 cards past 99 and noted the excess
C29_Witness ==
  /\ Autofilled
  /\ totalOf(BaseDeck) = COMMANDER_DECK_SIZE
  /\ totalOf(BuildResult.deck.cards) > COMMANDER_DECK_SIZE
  /\ Cardinality(AddedEvents) >= 1
  /\ \E n \in Range(BuildResult.notes) : n.kind = "exceeds" /\ n.excess = Cardinality(AddedEvents)

(* ---------------------- claims on the target lands -------------------- *)
\* the lands category of the template the build is made against
LandsCategory == Named(BuildTemplate.categories, "lands")

\* C30: the number of lands the build puts into the deck lies within the
\* range of the template's lands category: it is at least the minimum if
\* the category gives one and at most the maximum if it gives one, also
\* when it gives only one of the two.
C30_TargetLandsWithinTemplateRange ==
  Built =>
    \A c \in LandsCategory :
      /\ IsSome(c.min) => ValueOf(c.min) <= totalOf(LandBase)
      /\ IsSome(c.max) => totalOf(LandBase) <= ValueOf(c.max)

====
